---- MODULE Spec2Model ----
(***************************************************************************)
(* ServerNet: the orchestrator (server_manager.go) and the per-node        *)
(* instance manager (instance_manager main package) as state machines.     *)
(*                                                                         *)
(*   SpecPool   the node's port pool alone (allocatePort / releasePort)    *)
(*   Spec       one node: start-server, stop-server, save-instance and     *)
(*              restart-instance handlers interleaved at lock boundaries   *)
(*   SpecOrch   the lobby reconciler's ensureInstance against a proxy and  *)
(*              nodes known only by their answers                          *)
(*   SpecFleet  ensureInstance callers and both nodes' start handlers,     *)
(*              every call succeeding; SpecFleetFair adds the scheduling   *)
(***************************************************************************)
EXTENDS Integers, Sequences, FiniteSets, TLC

\* ------------------------------------------------------------------ bounds
MaxPorts == 5        \* fresh ports the watermark may hand out in SpecPool
MaxThreads == 2      \* node requests in flight at once
MaxReqs == 3         \* node requests issued in one behaviour
MaxCrash == 1        \* spontaneous exits of a ready child in one behaviour
MaxMoves == 1        \* /move requests in one behaviour
MaxStarts == 2       \* start-server calls the orchestrator issues in one behaviour
MaxDepth == 2        \* directory levels below the world directory
MaxLeaves == 2       \* lowest nodes (files or empty directories) of a world tree
MaxRegistry == 2     \* entries of the orchestrator's registry in SpecPoll
MaxRegThreads == 2   \* create_im / delete_im requests in flight at once
MaxRegReqs == 3      \* create_im / delete_im requests in one behaviour
MaxLines == 3        \* lines a child writes in SpecReader
PipeCap == 1         \* lines the output pipe holds before a write blocks

\* ------------------------------------------------------- program constants
BasePort == 3000
GithubToken == ""
DefaultFallback == "lobby"

Nodes == {"n1", "n2"}
Names == {"lobby", "alpha"}
MovedLists == {<< >>, <<"p1", "p2">>}

\* ------------------------------------------------------------------- state
VARIABLES
    nextPort,     \* [Nodes -> Int]            watermark
    available,    \* [Nodes -> Seq(Int)]       IntHeap of released ports
    servers,      \* [Nodes -> [port -> srv]]  Go map servers (ID -> *Server)
    serverMap,    \* [Nodes -> [name -> srv]]  Go map serverMap (0 is a nil *Server)
    muxDead,      \* [Nodes -> BOOLEAN]        serversMux left locked by a panic
    muDead,       \* [Nodes -> BOOLEAN]        mu held by a handler blocked on serversMux
    dirs,         \* [Nodes -> SUBSET Int]     provisioned paper_server_<port> directories
    srvs,         \* Seq of Server structs     (the heap of *Server objects)
    procs,        \* Seq of child processes
    thr,          \* [1..MaxThreads -> handler activation]
    reqs,         \* requests issued so far
    crashes,      \* spontaneous child exits so far
    held,         \* SpecPool: ports handed out by allocatePort and not yet released
    proxy,        \* the proxy's routing table: [name -> [host, port]]
    ens,          \* [1..2 -> activation of ensureInstance]
    moves,        \* /move requests served so far
    reliable,     \* TRUE: every HTTP call and every child start succeeds
    reap,         \* activation of cleanupEmptyServers (the reaper's sweep)
    zip,          \* activation of zipDir: the world tree and the archive written
    poll,         \* activation of fetchInstanceSummaries and its goroutines
    reg,          \* createIM / deleteIM requests, instanceManagers and the config file
    rd,           \* a child's output pipe and the goroutine scanning it for the readiness line
    pp            \* activation of parsePortFromResponse on a start-server answer

nodeVars == <<nextPort, available, servers, serverMap, muxDead, muDead, dirs>>
orchVars == <<proxy, ens, moves, reliable, reap, zip, poll, reg, rd, pp>>
vars == <<nextPort, available, servers, serverMap, muxDead, muDead, dirs,
          srvs, procs, thr, reqs, crashes, held, proxy, ens, moves, reliable, reap,
          zip, poll, reg, rd, pp>>

\* ------------------------------------------------------------ Go map helpers
EmptyMap == [x \in {} |-> 0]
MapPut(m, k, v) == [x \in (DOMAIN m) \cup {k} |-> IF x = k THEN v ELSE m[x]]
\* A variant of MapDel that leaves the key in the map.
MapDelKeeps(m, k) == m

\* delete(m, k)
MapDel(m, k) == [x \in (DOMAIN m) \ {k} |-> m[x]]

NilSrv == 0
NilCmd == 0

\* ------------------------------------------------------- container/heap on IntHeap
\* Indices are Go's 0-based ones; h[i + 1] is element i.
Swap(h, i, j) == [h EXCEPT ![i + 1] = h[j + 1], ![j + 1] = h[i + 1]]
Less(h, i, j) == h[i + 1] < h[j + 1]

RECURSIVE HeapUp(_, _)
HeapUp(h, j) ==
    LET i == (j - 1) \div 2 IN
    IF j <= 0 \/ i = j \/ ~Less(h, j, i) THEN h
    ELSE HeapUp(Swap(h, i, j), i)

RECURSIVE HeapDown(_, _, _)
HeapDown(h, i, n) ==
    LET j1 == 2 * i + 1 IN
    IF j1 >= n THEN h
    ELSE LET j2 == j1 + 1
             j == IF j2 < n /\ Less(h, j2, j1) THEN j2 ELSE j1
         IN IF ~Less(h, j, i) THEN h
            ELSE HeapDown(Swap(h, i, j), j, n)

HeapPush(h, x) == HeapUp(Append(h, x), Len(h))

\* heap.Pop: swap the root with the last element, sift down over the first n
\* elements, then IntHeap.Pop removes and returns the last one.
HeapPopRest(h) ==
    LET n == Len(h) - 1
        s == HeapDown(Swap(h, 0, n), 0, n)
    IN SubSeq(s, 1, n)
\* A variant of HeapPopValue that answers the last element of the slice.
HeapPopLast(h) == h[Len(h)]

HeapPopValue(h) == h[1]

\* ------------------------------------------------------------- the port pool
\* A variant of allocatePort that forgets nextPort++.
AllocPortNoBump(np, av) ==
    IF Len(av) > 0 THEN [port |-> HeapPopValue(av), np |-> np, av |-> HeapPopRest(av)]
    ELSE [port |-> np, np |-> np, av |-> av]

\* allocatePort: the result, the new watermark and the new heap.
AllocPort(np, av) ==
    IF Len(av) > 0 THEN [port |-> HeapPopValue(av), np |-> np, av |-> HeapPopRest(av)]
    ELSE [port |-> np, np |-> np + 1, av |-> av]

\* A variant of RelPort that pushes nothing.
RelPortDropped(av, p) == av

\* releasePort: the new heap.
RelPort(av, p) == IF p <= 0 THEN av ELSE HeapPush(av, p)

\* --------------------------------------------------------- objects and threads
IdleThr ==
    [op |-> "idle", node |-> "n1", name |-> "", pc |-> "idle", port |-> 0,
     srv |-> NilSrv, cmd |-> NilCmd, pend |-> FALSE, moved |-> << >>,
     ans |-> "", back |-> [players |-> "", server |-> ""], resp |-> 0, caller |-> 0]

Threads == 1..MaxThreads
Free(t) == thr[t].pc \in {"idle", "done"} /\ thr[t].caller = 0
At(t, label) == thr[t].pc = label

\* The handler returns: the response is written and the locals die.
Finish(r, code) ==
    [r EXCEPT !.pc = "done", !.resp = code, !.srv = NilSrv, !.cmd = NilCmd,
              !.pend = FALSE, !.moved = << >>, !.ans = ""]

NewServer(port, cmd, status) == [ID |-> port, Port |-> port, Cmd |-> cmd, Status |-> status]
NewProc(n, nm, port, via) ==
    [node |-> n, name |-> nm, port |-> port, via |-> via,
     alive |-> TRUE, token |-> FALSE, sig |-> FALSE, reaped |-> FALSE]

\* The `started` channel of a start is closed by the stdout scanner on the
\* readiness line, and also when the stream ends.
StartedClosed(p) == procs[p].token \/ ~procs[p].alive

\* os.Process.Signal fails with ErrProcessDone once Wait has reaped the child.
SignalFails(p) == procs[p].reaped

\* ------------------------------------------------------------ child processes
\* The child prints the line containing "Done" and "For help".
ChildReady(p) ==
    /\ p \in 1..Len(procs)
    /\ procs[p].alive /\ ~procs[p].token
    /\ procs' = [procs EXCEPT ![p].token = TRUE]
    /\ UNCHANGED <<nodeVars, srvs, thr, reqs, crashes, held, orchVars>>

\* The child exits: during startup, after an interrupt, or (a bounded number
\* of times) on its own while serving.
ChildExit(p) ==
    /\ p \in 1..Len(procs)
    /\ procs[p].alive
    /\ \/ ~procs[p].token /\ UNCHANGED crashes
       \/ procs[p].token /\ procs[p].sig /\ UNCHANGED crashes
       \/ procs[p].token /\ ~procs[p].sig /\ crashes < MaxCrash /\ crashes' = crashes + 1
    /\ procs' = [procs EXCEPT ![p].alive = FALSE]
    /\ UNCHANGED <<nodeVars, srvs, thr, reqs, held, orchVars>>

\* --------------------------------------------------------- startServerHandler
\* Entry check under mu: one server per name.
StartCheck(t) ==
    LET n == thr[t].node IN
    /\ At(t, "st_check")
    /\ ~muDead[n]
    /\ thr' = [thr EXCEPT ![t] =
                 IF thr[t].name \in DOMAIN serverMap[n]
                 THEN Finish(@, 400)
                 ELSE [@ EXCEPT !.pc = "st_alloc"]]
    /\ UNCHANGED <<nodeVars, srvs, procs, reqs, crashes, held, orchVars>>

\* port := allocatePort(); the deferred release is armed.
StartAlloc(t) ==
    LET n == thr[t].node
        a == AllocPort(nextPort[n], available[n])
    IN
    /\ At(t, "st_alloc")
    /\ ~muxDead[n]
    /\ nextPort' = [nextPort EXCEPT ![n] = a.np]
    /\ available' = [available EXCEPT ![n] = a.av]
    /\ thr' = [thr EXCEPT ![t].pc = "st_launch", ![t].port = a.port, ![t].pend = TRUE]
    /\ UNCHANGED <<servers, serverMap, muxDead, muDead, dirs, srvs, procs, reqs, crashes, held, orchVars>>

\* setupServerDir, StdoutPipe and cmd.Start: any of them may fail (500).
StartLaunch(t) ==
    LET n == thr[t].node IN
    /\ At(t, "st_launch")
    /\ \/ /\ ~reliable
          /\ thr' = [thr EXCEPT ![t].pc = "st_defer", ![t].resp = 500]
          /\ UNCHANGED <<procs, dirs>>
       \/ /\ procs' = Append(procs, NewProc(n, thr[t].name, thr[t].port, "start"))
          /\ dirs' = [dirs EXCEPT ![n] = @ \cup {thr[t].port}]
          /\ thr' = [thr EXCEPT ![t].pc = "st_wait", ![t].cmd = Len(procs) + 1]
    /\ UNCHANGED <<nextPort, available, servers, serverMap, muxDead, muDead, srvs,
                   reqs, crashes, held, orchVars>>

\* select { case <-started: ... case <-time.After(60 s): kill, 504 }
StartWait(t) ==
    LET p == thr[t].cmd IN
    /\ At(t, "st_wait")
    /\ \/ /\ StartedClosed(p)
          /\ thr' = [thr EXCEPT ![t].pc = "st_reg1"]
          /\ UNCHANGED procs
       \/ /\ ~StartedClosed(p)
          /\ ~reliable
          /\ procs' = [procs EXCEPT ![p].alive = FALSE]
          /\ thr' = [thr EXCEPT ![t].pc = "st_defer", ![t].resp = 504]
    /\ UNCHANGED <<nodeVars, srvs, reqs, crashes, held, orchVars>>

\* srv := &Server{...Status: "running"}; servers[srv.ID] = srv under serversMux.
StartReg1(t) ==
    LET n == thr[t].node IN
    /\ At(t, "st_reg1")
    /\ ~muxDead[n]
    /\ srvs' = Append(srvs, NewServer(thr[t].port, thr[t].cmd, "running"))
    /\ servers' = [servers EXCEPT ![n] = MapPut(@, thr[t].port, Len(srvs) + 1)]
    /\ thr' = [thr EXCEPT ![t].pc = "st_reg2", ![t].srv = Len(srvs) + 1]
    /\ UNCHANGED <<nextPort, available, serverMap, muxDead, muDead, dirs, procs,
                   reqs, crashes, held, orchVars>>

\* serverMap[name] = srv under mu; allocatedAndPending = false; 200.
StartReg2(t) ==
    LET n == thr[t].node IN
    /\ At(t, "st_reg2")
    /\ ~muDead[n]
    /\ serverMap' = [serverMap EXCEPT ![n] = MapPut(@, thr[t].name, thr[t].srv)]
    /\ thr' = [thr EXCEPT ![t] = Finish(@, 200)]
    /\ UNCHANGED <<nextPort, available, servers, muxDead, muDead, dirs, srvs, procs,
                   reqs, crashes, held, orchVars>>

\* The deferred function of a failed start: releasePort(port).
StartDefer(t) ==
    LET n == thr[t].node IN
    /\ At(t, "st_defer")
    /\ ~muxDead[n]
    /\ available' = [available EXCEPT ![n] =
                       IF thr[t].pend THEN RelPort(@, thr[t].port) ELSE @]
    /\ thr' = [thr EXCEPT ![t] = Finish(@, thr[t].resp)]
    /\ UNCHANGED <<nextPort, servers, serverMap, muxDead, muDead, dirs, srvs, procs,
                   reqs, crashes, held, orchVars>>

\* ---------------------------------------------------------- stopServerHandler
\* Under mu: look the name up and delete the mapping.
StopFind(t) ==
    LET n == thr[t].node
        nm == thr[t].name
    IN
    /\ At(t, "sp_find")
    /\ ~muDead[n]
    /\ IF nm \notin DOMAIN serverMap[n]
       THEN /\ thr' = [thr EXCEPT ![t] = Finish(@, 404)]
            /\ UNCHANGED serverMap
       ELSE /\ thr' = [thr EXCEPT ![t].pc = "sp_stop", ![t].srv = serverMap[n][nm]]
            /\ serverMap' = [serverMap EXCEPT ![n] = MapDel(@, nm)]
    /\ UNCHANGED <<nextPort, available, servers, muxDead, muDead, dirs, srvs, procs,
                   reqs, crashes, held, orchVars>>

\* Under serversMux: servers[srv.ID], SIGINT, delete(servers, ID).  A nil srv
\* panics on srv.ID with serversMux locked and no deferred unlock.
StopSignal(t) ==
    LET n == thr[t].node
        s == thr[t].srv
    IN
    /\ At(t, "sp_stop")
    /\ ~muxDead[n]
    /\ IF s = NilSrv
       THEN /\ muxDead' = [muxDead EXCEPT ![n] = TRUE]
            /\ thr' = [thr EXCEPT ![t] = Finish(@, -1)]
            /\ UNCHANGED <<servers, procs>>
       ELSE IF srvs[s].ID \notin DOMAIN servers[n]
       THEN /\ thr' = [thr EXCEPT ![t] = Finish(@, 500)]
            /\ UNCHANGED <<servers, procs, muxDead>>
       ELSE LET real == servers[n][srvs[s].ID] IN
            IF SignalFails(srvs[real].Cmd)
            THEN /\ thr' = [thr EXCEPT ![t] = Finish(@, 500)]
                 /\ UNCHANGED <<servers, procs, muxDead>>
            ELSE /\ procs' = [procs EXCEPT ![srvs[real].Cmd].sig = TRUE]
                 /\ servers' = [servers EXCEPT ![n] = MapDel(@, srvs[real].ID)]
                 /\ thr' = [thr EXCEPT ![t].pc = "sp_release", ![t].port = srvs[real].ID]
                 /\ UNCHANGED muxDead
    /\ UNCHANGED <<nextPort, available, serverMap, muDead, dirs, srvs, reqs, crashes, held, orchVars>>

\* releasePort(realSrv.ID); 200.
StopRelease(t) ==
    LET n == thr[t].node IN
    /\ At(t, "sp_release")
    /\ ~muxDead[n]
    /\ available' = [available EXCEPT ![n] = RelPort(@, thr[t].port)]
    /\ thr' = [thr EXCEPT ![t] = Finish(@, 200)]
    /\ UNCHANGED <<nextPort, servers, serverMap, muxDead, muDead, dirs, srvs, procs,
                   reqs, crashes, held, orchVars>>

\* ------------------------------------- saveWorldHandler / restartWorldHandler
\* What client.Get of /move_from_to can bring back: a transport error, a
\* status other than 200, a body that is not JSON, ok=false, or ok=true.
MoveAnswers == {"error", "status", "garbage", "refused", "ok"}

\* A variant of MoveFromToAccepted that lets an ok=false answer through.
MoveFromToAcceptsRefusal(ans) == ans \in {"ok", "refused"}

\* The four checks between the call and `movedPlayers = mvResp.MovedPlayers`:
\* err, StatusCode, json.Unmarshal, mvResp.Ok.
MoveFromToAccepted(ans) == ans = "ok"

\* A. /move_from_to on the proxy: any failure aborts with 500.
Evacuate(t) ==
    /\ At(t, "rs_evac")
    /\ \E ans \in MoveAnswers :
          /\ reliable => ans = "ok"
          /\ IF MoveFromToAccepted(ans)
             THEN \E m \in MovedLists :
                     thr' = [thr EXCEPT ![t].pc = "rs_locate", ![t].moved = m,
                                        ![t].ans = ans]
             ELSE thr' = [thr EXCEPT ![t] = Finish(@, 500)]
    /\ UNCHANGED <<nodeVars, srvs, procs, reqs, crashes, held, orchVars>>

\* B. Under mu: locate the server, mark it "restarting", copy its port; then
\* os.Stat of the directory (the world directory for save).
Locate(t) ==
    LET n == thr[t].node
        nm == thr[t].name
    IN
    /\ At(t, "rs_locate")
    /\ ~muDead[n]
    /\ IF nm \notin DOMAIN serverMap[n]
       THEN /\ thr' = [thr EXCEPT ![t] = Finish(@, 404)]
            /\ UNCHANGED srvs
       ELSE IF serverMap[n][nm] = NilSrv
       THEN /\ thr' = [thr EXCEPT ![t] = Finish(@, 400)]
            /\ UNCHANGED srvs
       ELSE LET s == serverMap[n][nm] IN
            /\ srvs' = [srvs EXCEPT ![s].Status = "restarting"]
            /\ thr' = [thr EXCEPT ![t] =
                         IF srvs[s].Port \in dirs[n]
                         THEN [@ EXCEPT !.pc = "hold_sig", !.srv = s, !.port = srvs[s].Port]
                         ELSE Finish(@, 400)]
    /\ UNCHANGED <<nodeVars, procs, reqs, crashes, held, orchVars>>

\* stopServerHold 1-2: a server without a process is set to nil in serverMap;
\* otherwise SIGINT.
HoldSignal(t) ==
    LET n == thr[t].node
        c == srvs[thr[t].srv].Cmd
    IN
    /\ At(t, "hold_sig")
    /\ IF c = NilCmd
       THEN /\ ~muDead[n]
            /\ serverMap' = [serverMap EXCEPT ![n] = MapPut(@, thr[t].name, NilSrv)]
            /\ thr' = [thr EXCEPT ![t] = Finish(@, 500)]
            /\ UNCHANGED procs
       ELSE IF SignalFails(c)
       THEN /\ thr' = [thr EXCEPT ![t] = Finish(@, 500)]
            /\ UNCHANGED <<serverMap, procs>>
       ELSE /\ procs' = [procs EXCEPT ![c].sig = TRUE]
            /\ thr' = [thr EXCEPT ![t].pc = "hold_wait", ![t].cmd = c]
            /\ UNCHANGED serverMap
    /\ UNCHANGED <<nextPort, available, servers, muxDead, muDead, dirs, srvs,
                   reqs, crashes, held, orchVars>>

\* stopServerHold 2: cmd.Wait() returns, or after 30 s the child is killed
\* and then waited for.
HoldWait(t) ==
    LET c == thr[t].cmd IN
    /\ At(t, "hold_wait")
    /\ procs' = [procs EXCEPT ![c].alive = FALSE, ![c].reaped = TRUE]
    /\ thr' = [thr EXCEPT ![t].pc = "hold_del"]
    /\ UNCHANGED <<nodeVars, srvs, reqs, crashes, held, orchVars>>

\* stopServerHold 3: delete(servers, srvID) under serversMux.
HoldDelete(t) ==
    LET n == thr[t].node IN
    /\ At(t, "hold_del")
    /\ ~muxDead[n]
    /\ servers' = [servers EXCEPT ![n] = MapDel(@, srvs[thr[t].srv].ID)]
    /\ thr' = [thr EXCEPT ![t].pc = "hold_nil"]
    /\ UNCHANGED <<nextPort, available, serverMap, muxDead, muDead, dirs, srvs, procs,
                   reqs, crashes, held, orchVars>>

\* stopServerHold 3: serverMap[name] = nil under mu.
HoldNil(t) ==
    LET n == thr[t].node IN
    /\ At(t, "hold_nil")
    /\ ~muDead[n]
    /\ serverMap' = [serverMap EXCEPT ![n] = MapPut(@, thr[t].name, NilSrv)]
    /\ thr' = [thr EXCEPT ![t].pc = IF thr[t].op = "save" THEN "sv_zip" ELSE "held_set",
                          ![t].srv = NilSrv, ![t].cmd = NilCmd]
    /\ UNCHANGED <<nextPort, available, servers, muxDead, muDead, dirs, srvs, procs,
                   reqs, crashes, held, orchVars>>

\* save only: temp file, zipDir, the token check, uploadFileToGitHub.
SaveZipUpload(t) ==
    /\ At(t, "sv_zip")
    /\ \E ok \in BOOLEAN :
          /\ reliable => ok
          /\ thr' = [thr EXCEPT ![t] =
                    IF ok /\ GithubToken # ""
                      THEN [@ EXCEPT !.pc = "held_set"]
                      ELSE Finish(@, 500)]
    /\ UNCHANGED <<nodeVars, srvs, procs, reqs, crashes, held, orchVars>>

\* startHeldServer 1: a fresh Server{Status: "restarting", Cmd: nil} is stored
\* in serverMap under mu.
HeldSet(t) ==
    LET n == thr[t].node IN
    /\ At(t, "held_set")
    /\ ~muDead[n]
    /\ srvs' = Append(srvs, NewServer(thr[t].port, NilCmd, "restarting"))
    /\ serverMap' = [serverMap EXCEPT ![n] = MapPut(@, thr[t].name, Len(srvs) + 1)]
    /\ thr' = [thr EXCEPT ![t].pc = "held_launch", ![t].srv = Len(srvs) + 1]
    /\ UNCHANGED <<nextPort, available, servers, muxDead, muDead, dirs, procs,
                   reqs, crashes, held, orchVars>>

\* startHeldServer 1-2: copy the plugin (failure returns at once), then the
\* pipe and cmd.Start (failure sets serverMap[name] = nil); srv.Cmd = cmd.
HeldLaunch(t) ==
    LET n == thr[t].node IN
    /\ At(t, "held_launch")
    /\ \/ /\ ~reliable
          /\ thr' = [thr EXCEPT ![t] = Finish(@, 500)]
          /\ UNCHANGED <<serverMap, srvs, procs>>
       \/ /\ ~reliable
          /\ ~muDead[n]
          /\ serverMap' = [serverMap EXCEPT ![n] = MapPut(@, thr[t].name, NilSrv)]
          /\ thr' = [thr EXCEPT ![t] = Finish(@, 500)]
          /\ UNCHANGED <<srvs, procs>>
       \/ /\ procs' = Append(procs, NewProc(n, thr[t].name, thr[t].port, "restart"))
          /\ srvs' = [srvs EXCEPT ![thr[t].srv].Cmd = Len(procs) + 1]
          /\ thr' = [thr EXCEPT ![t].pc = "held_wait", ![t].cmd = Len(procs) + 1]
          /\ UNCHANGED serverMap
    /\ UNCHANGED <<nextPort, available, servers, muxDead, muDead, dirs,
                   reqs, crashes, held, orchVars>>

\* startHeldServer 4: on `started`, under mu, the entry now in serverMap (if
\* not nil) becomes "running" and is stored in servers under serversMux; on
\* the 60 s timeout the child is killed and serverMap[name] = nil.
HeldWait(t) ==
    LET n == thr[t].node
        nm == thr[t].name
        c == thr[t].cmd
        cur == IF nm \in DOMAIN serverMap[n] THEN serverMap[n][nm] ELSE NilSrv
    IN
    /\ At(t, "held_wait")
    /\ ~muDead[n]
    /\ \/ /\ StartedClosed(c)
          /\ IF cur = NilSrv
             THEN /\ thr' = [thr EXCEPT ![t].pc = "rs_back"]
                  /\ UNCHANGED <<srvs, servers, muDead>>
             ELSE IF muxDead[n]
             THEN /\ srvs' = [srvs EXCEPT ![cur].Status = "running"]
                  /\ muDead' = [muDead EXCEPT ![n] = TRUE]
                  /\ thr' = [thr EXCEPT ![t].pc = "blocked"]
                  /\ UNCHANGED servers
             ELSE /\ srvs' = [srvs EXCEPT ![cur].Status = "running"]
                  /\ servers' = [servers EXCEPT ![n] = MapPut(@, srvs[cur].ID, cur)]
                  /\ thr' = [thr EXCEPT ![t].pc = "rs_back"]
                  /\ UNCHANGED muDead
          /\ UNCHANGED <<serverMap, procs>>
       \/ /\ ~StartedClosed(c)
          /\ ~reliable
          /\ procs' = [procs EXCEPT ![c].alive = FALSE]
          /\ serverMap' = [serverMap EXCEPT ![n] = MapPut(@, nm, NilSrv)]
          /\ thr' = [thr EXCEPT ![t] = Finish(@, 500)]
          /\ UNCHANGED <<srvs, servers, muDead>>
    /\ UNCHANGED <<nextPort, available, muxDead, dirs, reqs, crashes, held, orchVars>>

\* strings.Join(list, ",")
RECURSIVE Join(_)
Join(list) ==
    IF Len(list) = 0 THEN ""
    ELSE IF Len(list) = 1 THEN list[1]
    ELSE list[1] \o "," \o Join(Tail(list))

\* C. If movedPlayers is not empty: GET /move_list_to?players=<csv>&server=<name>
\* (kept in `back`); whatever the proxy answers is only logged.  Then 200.
ReturnPlayers(t) ==
    /\ At(t, "rs_back")
    /\ thr' = [thr EXCEPT ![t] =
                 [Finish(@, 200) EXCEPT !.back =
                     IF Len(thr[t].moved) > 0
                     THEN [players |-> Join(thr[t].moved), server |-> thr[t].name]
                     ELSE [players |-> "", server |-> ""]]]
    /\ UNCHANGED <<nodeVars, srvs, procs, reqs, crashes, held, orchVars>>

\* ------------------------------------------------------------- node requests
EntryPc(op) ==
    CASE op = "start" -> "st_check"
      [] op = "stop" -> "sp_find"
      [] OTHER -> "rs_evac"

\* An HTTP request reaches the node: net/http runs its handler in a goroutine
\* of its own.  The lowest free activation record is used.
NodeRequest(t, n, op, nm) ==
    /\ Free(t)
    /\ \A u \in Threads : u < t => ~Free(u)
    /\ reqs < MaxReqs
    /\ reqs' = reqs + 1
    /\ thr' = [thr EXCEPT ![t] = [IdleThr EXCEPT !.op = op, !.node = n, !.name = nm,
                                                 !.pc = EntryPc(op)]]
    /\ UNCHANGED <<nodeVars, srvs, procs, crashes, held, orchVars>>

HandlerStep(t) ==
    \/ StartCheck(t) \/ StartAlloc(t) \/ StartLaunch(t) \/ StartWait(t)
    \/ StartReg1(t) \/ StartReg2(t) \/ StartDefer(t)
    \/ StopFind(t) \/ StopSignal(t) \/ StopRelease(t)
    \/ Evacuate(t) \/ Locate(t) \/ HoldSignal(t) \/ HoldWait(t) \/ HoldDelete(t)
    \/ HoldNil(t) \/ SaveZipUpload(t) \/ HeldSet(t) \/ HeldLaunch(t) \/ HeldWait(t)
    \/ ReturnPlayers(t)

\* ------------------------------------------------------------------ systemHandler
\* GET /system: one Instance per key of serverMap; a nil entry is listed with
\* port 0 and status "running".
SystemInstance(n, nm) ==
    LET s == serverMap[n][nm] IN
    IF s # NilSrv
    THEN [name |-> nm, port |-> srvs[s].Port, status |-> srvs[s].Status]
    ELSE [name |-> nm, port |-> 0, status |-> "running"]

SystemInstances(n) == {SystemInstance(n, nm) : nm \in DOMAIN serverMap[n]}

\* ============================================================ the orchestrator
CpuVals == {0, 20, 50}
RamVals == {[used |-> 4000, total |-> 12000], [used |-> 4000, total |-> 16000]}

\* The registry: each node's domain as host[:port].
Domain(n) == IF n = "n1" THEN <<"n1", 8000>> ELSE <<"n2">>
NodeOfDomain(d) == d[1]

\* net.SplitHostPort(domain), falling back to the whole domain when it has
\* no port: the host is the part before the colon.
Host(d) == d[1]

\* All sequences that enumerate the set S once (Go map iteration order, and
\* the completion order of the poll's goroutines).
RECURSIVE Orderings(_)
Orderings(S) ==
    IF S = {} THEN {<< >>}
    ELSE UNION {{<<x>> \o q : q \in Orderings(S \ {x})} : x \in S}

\* One node's entry of fetchInstanceSummaries.
OfflineIM(n, state) ==
    [domain |-> Domain(n), state |-> state, cpu |-> 0, used |-> 0, total |-> 0,
     instances |-> << >>]
OnlineIM(n, cpu, ram, insts) ==
    [domain |-> Domain(n), state |-> "Online", cpu |-> cpu, used |-> ram.used,
     total |-> ram.total, instances |-> insts]

\* The first instance named `name` in the order the loops visit the snapshot.
Matches(ims, name) ==
    {kj \in UNION {{<<k, j>> : j \in 1..Len(ims[k].instances)} : k \in 1..Len(ims)} :
        ims[kj[1]].instances[kj[2]].name = name}
FirstMatch(ims, name) ==
    CHOOSE kj \in Matches(ims, name) :
        \A o \in Matches(ims, name) :
            kj[1] < o[1] \/ (kj[1] = o[1] /\ kj[2] <= o[2])

\* A variant of step 3 that treats a restarting instance as missing.
ScanRestartingPlaces(ims, name) ==
    IF Matches(ims, name) = {} THEN [dec |-> "place"]
    ELSE LET kj == FirstMatch(ims, name)
             im == ims[kj[1]]
             inst == im.instances[kj[2]]
         IN CASE inst.status \in {"running", "started"} ->
                     [dec |-> "register", domain |-> im.domain, port |-> inst.port]
              [] inst.status = "restarting" -> [dec |-> "place"]
              [] OTHER -> [dec |-> "abort"]

\* ensureInstance step 3: what the status of the first instance found leads to.
Scan(ims, name) ==
    IF Matches(ims, name) = {} THEN [dec |-> "place"]
    ELSE LET kj == FirstMatch(ims, name)
             im == ims[kj[1]]
             inst == im.instances[kj[2]]
         IN CASE inst.status \in {"running", "started"} ->
                     [dec |-> "register", domain |-> im.domain, port |-> inst.port]
              [] inst.status = "restarting" -> [dec |-> "wait"]
              [] OTHER -> [dec |-> "abort"]

\* A variant of the wait that registers an instance still restarting.
WaitScanRegistersRestarting(ims, name) ==
    IF Matches(ims, name) = {} THEN [dec |-> "lost"]
    ELSE LET kj == FirstMatch(ims, name)
             im == ims[kj[1]]
             inst == im.instances[kj[2]]
         IN CASE inst.status \in {"running", "restarting"} ->
                     [dec |-> "register", domain |-> im.domain, port |-> inst.port]
              [] OTHER -> [dec |-> "lost"]

\* waitForInstance: what one poll leads to.
WaitScan(ims, name) ==
    IF Matches(ims, name) = {} THEN [dec |-> "lost"]
    ELSE LET kj == FirstMatch(ims, name)
             im == ims[kj[1]]
             inst == im.instances[kj[2]]
         IN CASE inst.status = "running" ->
                     [dec |-> "register", domain |-> im.domain, port |-> inst.port]
              [] inst.status = "restarting" -> [dec |-> "again"]
              [] OTHER -> [dec |-> "lost"]

\* ensureInstance step 4: the managers with a non-zero CPU reading, and the
\* ones sort.Slice may put first (CPU ascending, then free RAM descending).
\* A variant of Filtered that keeps every manager of the snapshot.
FilteredKeepsAll(ims) == 1..Len(ims)

\* filtered: the managers of the snapshot with CPUPercent != 0.
Filtered(ims) == {k \in 1..Len(ims) : ims[k].cpu # 0}
\* A variant of LessIM that breaks a CPU tie by the smaller free RAM.
LessIMSmallerRamFirst(a, b) ==
    IF a.cpu = b.cpu THEN (a.total - a.used) < (b.total - b.used) ELSE a.cpu < b.cpu

\* The less function handed to sort.Slice.
LessIM(a, b) ==
    IF a.cpu = b.cpu THEN (a.total - a.used) > (b.total - b.used) ELSE a.cpu < b.cpu
Best(ims) == {k \in Filtered(ims) : \A o \in Filtered(ims) : ~LessIM(ims[o], ims[k])}

\* The node's 200 body, "Server '<name>' started on port N", as the JSON port
\* it carries (-1: not JSON) and its standalone runs of digits in order.
\* A name as runs of letters ("w"), of other characters ("-") and of digits
\* ("d", with the number they spell).
Chunk(kind, val) == [kind |-> kind, val |-> val]
Chunks(name) ==
    CASE name = "arena-12" -> <<Chunk("w", 0), Chunk("-", 0), Chunk("d", 12)>>
      [] name = "pvp-7" -> <<Chunk("w", 0), Chunk("-", 0), Chunk("d", 7)>>
      [] name = "s1" -> <<Chunk("w", 0), Chunk("d", 1)>>
      [] OTHER -> <<Chunk("w", 0)>>

\* The runs of digits with a word boundary on both sides (\b...\b): no letter
\* run touches them.  The name stands between quotes in the body.
RECURSIVE Standalone(_, _)
Standalone(ch, i) ==
    IF i > Len(ch) THEN << >>
    ELSE IF /\ ch[i].kind = "d"
            /\ (i = 1 \/ ch[i - 1].kind # "w")
            /\ (i = Len(ch) \/ ch[i + 1].kind # "w")
         THEN <<ch[i].val>> \o Standalone(ch, i + 1)
         ELSE Standalone(ch, i + 1)

NameInts(name) == Standalone(Chunks(name), 1)
StartBody(name, port) == [jsonPort |-> -1, ints |-> NameInts(name) \o <<port>>]

\* parsePortFromResponse: JSON {"port": N} first, else the first standalone
\* integer of 2 to 6 digits; 0 when there is none.
ParsePortFromResponse(body) ==
    IF body.jsonPort >= 0 THEN body.jsonPort
    ELSE LET ok == {i \in 1..Len(body.ints) : body.ints[i] >= 10 /\ body.ints[i] <= 999999}
         IN IF ok = {} THEN 0
            ELSE body.ints[CHOOSE i \in ok : \A o \in ok : i <= o]

MaxPolls == 12
Statuses == {"running", "started", "restarting", "stopped"}

IdleEns ==
    [name |-> "", pc |-> "idle", i |-> 0, sel |-> "", dom |-> << >>, port |-> 0,
     th |-> 0, out |-> "", via |-> "", nstart |-> 0, nadd |-> 0, routed0 |-> FALSE,
     seen |-> [read |-> FALSE, insts |-> {}],
     wseen |-> [read |-> FALSE, insts |-> {}],
     cand |-> {}, call |-> << >>]

EnsIds == {1, 2}
EnsAt(e, label) == ens[e].pc = label
EnsFinish(r, out) == [r EXCEPT !.pc = "done", !.out = out]

\* What a snapshot shows about `name`: the domain, port and status of every
\* instance of that name (kept for the properties; the code does not read it).
Shown(ims, name) ==
    [read |-> TRUE,
     insts |-> {[domain |-> ims[kj[1]].domain,
                 port |-> ims[kj[1]].instances[kj[2]].port,
                 status |-> ims[kj[1]].instances[kj[2]].status] : kj \in Matches(ims, name)}]

\* What a snapshot shows about the managers: each one's node, state tag, CPU
\* reading and free RAM (kept for the properties; the code reads `ims`).
Managers(ims) ==
    {[node |-> NodeOfDomain(ims[k].domain), state |-> ims[k].state, cpu |-> ims[k].cpu,
      free |-> ims[k].total - ims[k].used] : k \in 1..Len(ims)}

\* The lobby reconciler's loop: ensureInstance("lobby") on every tick.
LobbyTick ==
    /\ ens[1].pc \in {"idle", "done"}
    /\ ens' = [ens EXCEPT ![1] = [IdleEns EXCEPT !.name = "lobby", !.pc = "e_check"]]
    /\ UNCHANGED <<nodeVars, srvs, procs, thr, reqs, crashes, held, proxy, moves, reliable, zip, poll, reg, rd, pp, reap>>

\* POST /move: moveHandler calls ensureInstance(req.Server).
MoveRequest(nm) ==
    /\ ens[2].pc \in {"idle", "done"}
    /\ moves < MaxMoves
    /\ moves' = moves + 1
    /\ ens' = [ens EXCEPT ![2] = [IdleEns EXCEPT !.name = nm, !.pc = "e_check"]]
    /\ UNCHANGED <<nodeVars, srvs, procs, thr, reqs, crashes, held, proxy, reliable, zip, poll, reg, rd, pp, reap>>

\* 1) proxyHasInstance: an endpoint that cannot be reached is skipped, and
\* with none reachable the answer is (false, nil).
EnsCheck(e) ==
    /\ EnsAt(e, "e_check")
    /\ \E answered \in BOOLEAN :
          /\ reliable => answered
          /\ ens' = [ens EXCEPT ![e] =
                       IF answered /\ ens[e].name \in DOMAIN proxy
                       THEN EnsFinish([@ EXCEPT !.routed0 = TRUE], "found")
                       ELSE [@ EXCEPT !.pc = "e_poll",
                                      !.routed0 = ens[e].name \in DOMAIN proxy]]
    /\ UNCHANGED <<nodeVars, srvs, procs, thr, reqs, crashes, held, proxy, moves, reliable, zip, poll, reg, rd, pp, reap>>

\* 2)-4) getInstanceSummary fails, or returns one of the snapshots `snaps`;
\* then the scan and, for a missing instance, the choice of a manager.
EnsPoll(e, snaps) ==
    /\ EnsAt(e, "e_poll")
    /\ \/ /\ ~reliable
          /\ ens' = [ens EXCEPT ![e] = EnsFinish(@, "pollfailed")]
       \/ \E ims \in snaps :
            LET d == Scan(ims, ens[e].name)
                sh == Shown(ims, ens[e].name)
            IN
            IF Len(ims) = 0
            THEN ens' = [ens EXCEPT ![e] = EnsFinish(@, "nomanagers")]
            ELSE IF d.dec = "place" /\ Best(ims) # {}
            THEN \E k \in Best(ims) :
                    ens' = [ens EXCEPT ![e].pc = "e_start", ![e].seen = sh,
                                       ![e].cand = Managers(ims),
                                       ![e].sel = NodeOfDomain(ims[k].domain)]
            ELSE ens' = [ens EXCEPT ![e] =
                    CASE d.dec = "register" ->
                            [@ EXCEPT !.pc = "e_reg", !.dom = d.domain, !.port = d.port,
                                      !.via = "scan", !.seen = sh]
                      [] d.dec = "wait" -> [@ EXCEPT !.pc = "w_poll", !.i = 0, !.seen = sh]
                      [] d.dec = "abort" -> EnsFinish([@ EXCEPT !.seen = sh], "unexpected")
                      [] OTHER -> EnsFinish([@ EXCEPT !.seen = sh, !.cand = Managers(ims)],
                                            "nocapacity")]
    /\ UNCHANGED <<nodeVars, srvs, procs, thr, reqs, crashes, held, proxy, moves, reliable, zip, poll, reg, rd, pp, reap>>

\* The loop test of waitForInstance after the i-th iteration.
WaitNext(r) == IF r.i < MaxPolls THEN r ELSE EnsFinish(r, "timeout")

\* waitForInstance, one iteration: sleep, poll, look for the instance.
WaitPoll(e, snaps) ==
    /\ EnsAt(e, "w_poll")
    /\ ens[e].i < MaxPolls
    /\ \/ /\ ~reliable
          /\ ens' = [ens EXCEPT ![e] =
                       WaitNext([@ EXCEPT !.i = @ + 1,
                                          !.wseen = [read |-> FALSE, insts |-> {}]])]
       \/ \E ims \in snaps :
            LET d == WaitScan(ims, ens[e].name)
                sh == Shown(ims, ens[e].name)
            IN ens' = [ens EXCEPT ![e] =
                    CASE d.dec = "register" ->
                            [@ EXCEPT !.pc = "e_reg", !.dom = d.domain, !.port = d.port,
                                      !.via = "wait", !.i = @ + 1, !.wseen = sh]
                      [] d.dec = "again" -> WaitNext([@ EXCEPT !.i = @ + 1, !.wseen = sh])
                      [] OTHER -> EnsFinish([@ EXCEPT !.i = @ + 1, !.wseen = sh], "lost")]
    /\ UNCHANGED <<nodeVars, srvs, procs, thr, reqs, crashes, held, proxy, moves, reliable, zip, poll, reg, rd, pp, reap>>

\* registerInstanceToProxy: the host is split off the domain, then
\* GET /add_server?name&host&port; a failure is only logged.
EnsRegister(e) ==
    /\ EnsAt(e, "e_reg")
    /\ \E ok \in BOOLEAN :
          /\ reliable => ok
          /\ proxy' = IF ok
                      THEN MapPut(proxy, ens[e].name,
                                  [host |-> Host(ens[e].dom), port |-> ens[e].port])
                      ELSE proxy
          /\ ens' = [ens EXCEPT ![e] =
                       EnsFinish([@ EXCEPT !.nadd = @ + 1,
                                           !.call = <<Host(ens[e].dom), ens[e].port>>],
                                 IF ok THEN "registered" ELSE "regfailed")]
    /\ UNCHANGED <<nodeVars, srvs, procs, thr, reqs, crashes, held, moves, reliable, zip, poll, reg, rd, pp, reap>>

\* 5) GET /start-server on the selected manager: the node runs
\* startServerHandler for it.
EnsStart(e, t) ==
    /\ EnsAt(e, "e_start")
    /\ Free(t)
    /\ \A u \in Threads : u < t => ~Free(u)
    /\ reqs < MaxStarts
    /\ reqs' = reqs + 1
    /\ thr' = [thr EXCEPT ![t] = [IdleThr EXCEPT !.op = "start", !.node = ens[e].sel,
                                                 !.name = ens[e].name, !.pc = "st_check",
                                                 !.caller = e]]
    /\ ens' = [ens EXCEPT ![e].pc = "e_await", ![e].th = t, ![e].nstart = @ + 1,
                          ![e].cand = {}]
    /\ UNCHANGED <<nodeVars, srvs, procs, crashes, held, proxy, moves, reliable, zip, poll, reg, rd, pp, reap>>

\* 5)-6) with the response: anything but 200 ends the call; a 200 body is
\* parsed for the port.
AfterStart(r, code, body) ==
    IF code # 200 THEN EnsFinish(r, "startfailed")
    ELSE IF ParsePortFromResponse(body) = 0 THEN EnsFinish(r, "noport")
    ELSE [r EXCEPT !.pc = "e_reg", !.via = "start", !.dom = Domain(r.sel),
                   !.port = ParsePortFromResponse(body)]

\* The handler has answered, or the client's 90 s timeout expires and the
\* handler runs on unobserved.
EnsAwait(e) ==
    LET t == ens[e].th IN
    /\ EnsAt(e, "e_await")
    /\ \/ /\ thr[t].pc = "done"
          /\ ens' = [ens EXCEPT ![e] =
                       AfterStart([@ EXCEPT !.th = 0], thr[t].resp,
                                  StartBody(thr[t].name, thr[t].port))]
       \/ /\ ~reliable
          /\ thr[t].pc # "done"
          /\ ens' = [ens EXCEPT ![e] = EnsFinish([@ EXCEPT !.th = 0], "starttimeout")]
    /\ thr' = [thr EXCEPT ![t].caller = 0]
    /\ UNCHANGED <<nodeVars, srvs, procs, reqs, crashes, held, proxy, moves, reliable, zip, poll, reg, rd, pp, reap>>

\* 5)-6) against a node known only by its answer.
StartAnswers(name) ==
    {[code |-> 200, body |-> StartBody(name, p)] : p \in {BasePort, BasePort + 1}}
      \cup {[code |-> c, body |-> StartBody(name, 0)] : c \in {0, 400, 500, 504}}

EnsStartRemote(e) ==
    /\ EnsAt(e, "e_start")
    /\ \E a \in StartAnswers(ens[e].name) :
          ens' = [ens EXCEPT ![e] = AfterStart([@ EXCEPT !.nstart = @ + 1, !.cand = {}],
                                              a.code, a.body)]
    /\ UNCHANGED <<nodeVars, srvs, procs, thr, reqs, crashes, held, proxy, moves, reliable, zip, poll, reg, rd, pp, reap>>

\* ------------------------------------------------------ what a poll may return
\* fetchInstanceSummaries against the modelled nodes: per node Offline
\* (transport error), Warning (unreadable body) or Online with the node's
\* /system answer; the entries arrive in completion order.
NodeViews(n) ==
    {OnlineIM(n, c, r, q) :
        c \in (IF reliable THEN CpuVals \ {0} ELSE CpuVals), r \in RamVals,
        q \in Orderings(SystemInstances(n))}
      \cup (IF reliable THEN {} ELSE {OfflineIM(n, "Offline"), OfflineIM(n, "Warning")})

LiveSnapshots ==
    {[k \in 1..Len(o) |-> f[o[k]]] :
        o \in Orderings(Nodes),
        f \in {g \in [Nodes -> UNION {NodeViews(n) : n \in Nodes}] :
                  \A n \in Nodes : g[n] \in NodeViews(n)}}

\* fetchInstanceSummaries against nodes known only by their answers.
NodePort(n) == IF n = "n1" THEN BasePort ELSE BasePort + 1
AnswerLists(n) ==
    {<< >>, <<[name |-> "alpha", port |-> NodePort(n) + 2, status |-> "running"]>>,
     <<[name |-> "alpha", port |-> NodePort(n) + 2, status |-> "running"],
       [name |-> "lobby", port |-> NodePort(n), status |-> "running"]>>}
      \cup {<<[name |-> "lobby", port |-> NodePort(n), status |-> st]>> : st \in Statuses}
AnswerCpu == {0, 20}
AnswerRam == {[used |-> 4000, total |-> 16000]}
AnswerViews(n) ==
    {OnlineIM(n, c, r, q) : c \in AnswerCpu, r \in AnswerRam, q \in AnswerLists(n)}
      \cup {OfflineIM(n, "Offline"), OfflineIM(n, "Warning")}
AnySnapshots ==
    {[k \in 1..Len(o) |-> f[o[k]]] :
        o \in Orderings(Nodes),
        f \in {g \in [Nodes -> UNION {AnswerViews(n) : n \in Nodes}] :
                  \A n \in Nodes : g[n] \in AnswerViews(n)}}


\* ------------------------------------------------------ cleanupEmptyServers
\* What the reaper reads: /status, whose instances carry the player_count
\* merged from the proxy's status by instance name.
PlayerVals == {0, 2}
ReapInst(nm, port, st, pc) == [name |-> nm, port |-> port, status |-> st, players |-> pc]
ReapLists(n) ==
    {<< >>}
      \cup {<<ReapInst(nm, NodePort(n), st, pc)>> :
               nm \in Names, st \in Statuses, pc \in PlayerVals}
      \cup {<<ReapInst("lobby", NodePort(n), "running", pc),
              ReapInst("alpha", NodePort(n) + 2, st, qc)>> :
               st \in {"running", "restarting"}, pc \in PlayerVals, qc \in PlayerVals}
ReapViews(n) ==
    {OnlineIM(n, c, r, q) : c \in {20}, r \in AnswerRam, q \in ReapLists(n)}
      \cup {OfflineIM(n, "Offline")}
ReapSnapshots ==
    {[k \in 1..Len(o) |-> f[o[k]]] :
        o \in Orderings(Nodes),
        f \in {g \in [Nodes -> UNION {ReapViews(n) : n \in Nodes}] :
                  \A n \in Nodes : g[n] \in ReapViews(n)}}

IdleReap ==
    [pc |-> "idle", snap |-> << >>, k |-> 1, j |-> 1, stops |-> {}, oks |-> {},
     removes |-> {}, th |-> 0, again |-> FALSE]

\* A variant of the reaper's test that forgets to skip lobby.
ReapEligibleAnyName(inst) ==
    inst.players = 0 /\ inst.status \in {"running", "started"}

\* The reaper's test of one instance of the snapshot.
ReapEligible(inst) ==
    /\ inst.name # "lobby"
    /\ inst.players = 0 /\ inst.status \in {"running", "started"}

\* The loops' next position: the next instance of this manager, else the
\* first instance of the next manager that has one, else the end.
RECURSIVE ReapSkip(_, _, _)
ReapSkip(snap, k, j) ==
    IF k > Len(snap) THEN [k |-> k, j |-> 1]
    ELSE IF j <= Len(snap[k].instances) THEN [k |-> k, j |-> j]
    ELSE ReapSkip(snap, k + 1, 1)
ReapGoto(r, k, j) ==
    LET q == ReapSkip(r.snap, k, j)
    IN [r EXCEPT !.k = q.k, !.j = q.j,
                 !.pc = IF q.k > Len(r.snap) THEN "done" ELSE "visit"]

\* The sweep starts: getInstanceSummary fails (return) or yields a snapshot.
ReapPoll(snaps) ==
    /\ reap.pc \in {"idle", "done"}
    /\ \/ reap' = [IdleReap EXCEPT !.pc = "done"]
       \/ \E ims \in snaps : reap' = ReapGoto([IdleReap EXCEPT !.snap = ims], 1, 1)
    /\ UNCHANGED <<nodeVars, srvs, procs, thr, reqs, crashes, held, proxy, ens, moves, reliable, zip, poll, reg, rd, pp>>

\* A variant of AfterStop that goes on to remove_server whatever
\* stopServerOnIM returned.
AfterStopAlwaysRemoves(r, ok) == [r EXCEPT !.pc = "remove"]

\* `if err := stopServerOnIM(...); err != nil { continue }`: after an error
\* the loop goes on to the next instance, otherwise to removeServerFromProxy.
AfterStop(r, ok) ==
    IF ok THEN [r EXCEPT !.pc = "remove"] ELSE ReapGoto(r, r.k, r.j + 1)

\* One instance of the snapshot: skipped, or stopServerOnIM is called for it,
\* which the node answers with 200 (kept in `oks`) or not.
ReapVisit ==
    LET im == reap.snap[reap.k]
        inst == im.instances[reap.j]
        call == <<im.domain, inst.name>>
    IN
    /\ reap.pc = "visit"
    /\ IF ReapEligible(inst)
       THEN \E ok \in BOOLEAN :
               reap' = AfterStop([reap EXCEPT !.stops = @ \cup {call},
                                              !.oks = IF ok THEN @ \cup {call} ELSE @],
                                 ok)
       ELSE reap' = ReapGoto(reap, reap.k, reap.j + 1)
    /\ UNCHANGED <<nodeVars, srvs, procs, thr, reqs, crashes, held, proxy, ens, moves, reliable, zip, poll, reg, rd, pp>>

\* removeServerFromProxy after the 2 s pause: the proxy drops the route, or
\* the call fails and is only logged.
ReapRemove ==
    LET inst == reap.snap[reap.k].instances[reap.j] IN
    /\ reap.pc = "remove"
    /\ \E ok \in BOOLEAN :
          proxy' = IF ok THEN MapDel(proxy, inst.name) ELSE proxy
    /\ reap' = [ReapGoto(reap, reap.k, reap.j + 1) EXCEPT !.removes = @ \cup {inst.name}]
    /\ UNCHANGED <<nodeVars, srvs, procs, thr, reqs, crashes, held, ens, moves, reliable, zip, poll, reg, rd, pp>>

\* ------------------------------------- the reaper against the modelled nodes
\* statusHandler's merge: an instance the proxy lists gets the proxy's player
\* count, any other keeps PlayerCount 0.
SweepInst(inst) ==
    ReapInst(inst.name, inst.port, inst.status,
             IF inst.name \in DOMAIN proxy THEN proxy[inst.name].players ELSE 0)

\* fetchInstanceSummaries against the modelled nodes, with the merge.
SweepViews(n) ==
    {OnlineIM(n, 20, r, q) :
        r \in AnswerRam, q \in Orderings({SweepInst(inst) : inst \in SystemInstances(n)})}
      \cup (IF reliable THEN {} ELSE {OfflineIM(n, "Offline")})
SweepSnapshots ==
    {[k \in 1..Len(o) |-> f[o[k]]] :
        o \in Orderings(Nodes),
        f \in {g \in [Nodes -> UNION {SweepViews(n) : n \in Nodes}] :
                  \A n \in Nodes : g[n] \in SweepViews(n)}}

\* The ticker fires: the next sweep starts.  `again` tells that the sweep
\* before it ran on a snapshot it had read.
ReapPollLive ==
    /\ reap.pc \in {"idle", "done"}
    /\ LET again == reap.pc = "done" /\ reap.snap # << >> IN
       \/ /\ ~reliable
          /\ reap' = [IdleReap EXCEPT !.pc = "done", !.again = again]
       \/ \E ims \in SweepSnapshots :
             reap' = ReapGoto([IdleReap EXCEPT !.snap = ims, !.again = again], 1, 1)
    /\ UNCHANGED <<nodeVars, srvs, procs, thr, reqs, crashes, held, proxy, ens, moves, reliable, zip, poll, reg, rd, pp>>

\* One instance of the snapshot: skipped, or stopServerOnIM sends
\* GET /stop-server to its node, which runs stopServerHandler for it; the
\* request may also fail in transport.
ReapVisitLive(t) ==
    LET im == reap.snap[reap.k]
        inst == im.instances[reap.j]
        call == <<im.domain, inst.name>>
    IN
    /\ reap.pc = "visit"
    /\ IF ReapEligible(inst)
       THEN \/ /\ ~reliable
               /\ reap' = AfterStop([reap EXCEPT !.stops = @ \cup {call}], FALSE)
               /\ UNCHANGED thr
            \/ /\ Free(t)
               /\ \A u \in Threads : u < t => ~Free(u)
               /\ thr' = [thr EXCEPT ![t] =
                            [IdleThr EXCEPT !.op = "stop", !.node = NodeOfDomain(im.domain),
                                            !.name = inst.name, !.pc = "sp_find",
                                            !.caller = 3]]
               /\ reap' = [reap EXCEPT !.pc = "await", !.th = t, !.stops = @ \cup {call}]
       ELSE /\ reap' = ReapGoto(reap, reap.k, reap.j + 1)
            /\ UNCHANGED thr
    /\ UNCHANGED <<nodeVars, srvs, procs, reqs, crashes, held, proxy, ens, moves, reliable, zip, poll, reg, rd, pp>>

\* stopServerOnIM returns: the handler has answered (nil for a 200), or the
\* client's 30 s timeout expires.
ReapAwait ==
    LET t == reap.th
        call == <<reap.snap[reap.k].domain, reap.snap[reap.k].instances[reap.j].name>>
    IN
    /\ reap.pc = "await"
    /\ \/ /\ thr[t].pc = "done"
          /\ reap' = AfterStop([reap EXCEPT !.th = 0,
                                            !.oks = IF thr[t].resp = 200 THEN @ \cup {call}
                                                    ELSE @],
                               thr[t].resp = 200)
       \/ /\ ~reliable
          /\ thr[t].pc # "done"
          /\ reap' = AfterStop([reap EXCEPT !.th = 0], FALSE)
    /\ thr' = [thr EXCEPT ![t].caller = 0]
    /\ UNCHANGED <<nodeVars, srvs, procs, reqs, crashes, held, proxy, ens, moves, reliable, zip, poll, reg, rd, pp>>

\* ------------------------------------------------------------------ zipDir
\* A world directory tree: the nodes filepath.Walk meets below srcDir, each
\* with its path (srcDir's segments first) and whether it is a directory.
WorldDir == <<"paper_server_3000", "world">>
Segments == {"region", "advancements", "playerdata", "stats"}
Blacklist == {"advancements", "playerdata", "stats"}

RelPaths == UNION {[1..d -> Segments] : d \in 1..MaxDepth}
Prefixes(q) == {SubSeq(q, 1, d) : d \in 1..(Len(q) - 1)}

\* The sets of at most k lowest nodes, each a regular file or an empty directory.
RECURSIVE LeafSets(_)
LeafSets(k) ==
    IF k = 0 THEN {{}}
    ELSE LET less == LeafSets(k - 1) IN
         less \cup {x \cup {l} : x \in less, l \in [rel : RelPaths, dir : BOOLEAN]}

\* The trees with at most MaxLeaves lowest nodes; everything above a lowest
\* node is a directory, and no lowest node lies on or above another.
Trees ==
    {{[path |-> WorldDir \o q, dir |-> TRUE] : q \in UNION {Prefixes(l.rel) : l \in ls}}
        \cup {[path |-> WorldDir \o l.rel, dir |-> l.dir] : l \in ls} :
      ls \in {x \in LeafSets(MaxLeaves) :
                 \A a, b \in x :
                     a # b => /\ a.rel # b.rel
                              /\ a.rel \notin Prefixes(b.rel)}}

IdleZip == [pc |-> "idle", tree |-> {}, entries |-> {}]

\* filepath.Rel(srcDir, file) for a file below srcDir, then
\* strings.Split(relPath, separator): the segments after srcDir's.
Rel(src, file) == SubSeq(file, Len(src) + 1, Len(file))

\* A variant of Blacklisted that looks at the first segment only.
BlacklistedFirstOnly(parts) == parts[1] \in Blacklist

\* `for _, p := range parts { if _, ok := blacklistMap[p]; ok {...} }`
Blacklisted(parts) == \E i \in 1..Len(parts) : parts[i] \in Blacklist

\* The entries of a directory, which Walk visits after the directory itself.
Children(tree, dirpath) ==
    {c \in tree : Len(c.path) = Len(dirpath) + 1
                   /\ SubSeq(c.path, 1, Len(dirpath)) = dirpath}

\* The walk function applied to one node and, unless it answers SkipDir, to
\* what lies below it: the headers written to the archive.  A directory is
\* written as "<rel>/", a file under its relative path.
RECURSIVE WalkFrom(_, _)
WalkFrom(tree, node) ==
    LET parts == Rel(WorldDir, node.path) IN
    IF Blacklisted(parts) THEN {}
    ELSE IF node.dir
    THEN {[name |-> parts, dir |-> TRUE]}
           \cup UNION {WalkFrom(tree, c) : c \in Children(tree, node.path)}
    ELSE {[name |-> parts, dir |-> FALSE]}

\* zipDir(worldDir, zipPath, blacklist): the root is skipped, its entries walked.
ZipDir ==
    /\ zip.pc = "idle"
    /\ zip' = [zip EXCEPT !.pc = "done",
                          !.entries = UNION {WalkFrom(zip.tree, c) :
                                               c \in Children(zip.tree, WorldDir)}]
    /\ UNCHANGED <<nodeVars, srvs, procs, thr, reqs, crashes, held, proxy, ens, moves,
                   reliable, reap, poll, reg, rd, pp>>

\* --------------------------------------------------- fetchInstanceSummaries
\* A registry entry: Domain (and Name) only, everything else zero.
RegEntry(n) == OfflineIM(n, "")

\* createIM appends without looking for the domain, so an entry may repeat.
Registries == UNION {[1..k -> {RegEntry(n) : n \in Nodes}] : k \in 0..MaxRegistry}

\* What a node may put into a /system answer.
SampleInstances == {<< >>, <<[name |-> "alpha", port |-> BasePort, status |-> "ready"]>>}
Reports ==
    [cpu : CpuVals, used : {0, 4000}, total : {0, 12000}, instances : SampleInstances]

\* json.Marshal of SystemInfo: every field is omitempty, so a zero number and
\* an empty list leave no key.
Marshal(sys) ==
    LET keys == {k \in {"cpu", "used", "total"} : sys[k] # 0}
                  \cup (IF sys.instances # << >> THEN {"instances"} ELSE {})
    IN [k \in keys |-> sys[k]]

\* What one status request may meet: no answer (refused, timed out), a body
\* that breaks off, a body that is no JSON object, a JSON object with a field
\* of the wrong type, or the node's report.
Answers ==
    {[kind |-> k, sys |-> [cpu |-> 0, used |-> 0, total |-> 0, instances |-> << >>]] :
        k \in {"error", "unreadable", "garbage", "badtype"}}
      \cup {[kind |-> "report", sys |-> r] : r \in Reports}

\* The body sent: a JSON object, a JSON object with a string where a number
\* belongs, or text that is no JSON.
Body(a) ==
    [form |-> IF a.kind = "report" THEN "object"
              ELSE IF a.kind = "badtype" THEN "mistyped" ELSE "text",
     obj |-> IF a.kind = "report" THEN Marshal(a.sys) ELSE EmptyMap]

\* A variant of Unmarshal that never fails and leaves zero values instead.
UnmarshalLenient(body) ==
    [err |-> FALSE,
     sys |-> [k \in {"cpu", "used", "total", "instances"} |->
                IF body.form = "object" /\ k \in DOMAIN body.obj THEN body.obj[k]
                ELSE IF k = "instances" THEN << >> ELSE 0]]

\* json.Unmarshal(data, &sys): an error for what is no object or has a field
\* of the wrong type, otherwise the keys present, the rest zero.
Unmarshal(body) ==
    [err |-> body.form # "object",
     sys |-> [k \in {"cpu", "used", "total", "instances"} |->
                IF body.form = "object" /\ k \in DOMAIN body.obj THEN body.obj[k]
                ELSE IF k = "instances" THEN << >> ELSE 0]]

IdlePoll ==
    [pc |-> "idle", reg |-> << >>, ims |-> << >>, go |-> << >>, ans |-> << >>,
     ch |-> << >>, result |-> << >>]

\* The copy of the registry under mu, and one goroutine per entry of the copy.
PollStart ==
    /\ poll.pc = "start"
    /\ poll' = [poll EXCEPT !.pc = "wait",
                            !.ims = poll.reg,
                            !.go = [k \in 1..Len(poll.reg) |-> "get"],
                            !.ans = [k \in 1..Len(poll.reg) |-> CHOOSE a \in Answers : a.kind = "error"]]
    /\ UNCHANGED <<nodeVars, srvs, procs, thr, reqs, crashes, held, proxy, ens, moves,
                   reliable, reap, zip, reg, rd, pp>>

\* client.Get(url) of goroutine k: an error sends the entry as Offline.
PollGet(k) ==
    /\ poll.pc = "wait"
    /\ k \in 1..Len(poll.go)
    /\ poll.go[k] = "get"
    /\ \E a \in Answers :
          poll' = IF a.kind = "error"
                  THEN [poll EXCEPT !.go[k] = "done", !.ans[k] = a,
                                    !.ch = Append(@, [poll.ims[k] EXCEPT !.state = "Offline"])]
                  ELSE [poll EXCEPT !.go[k] = "read", !.ans[k] = a]
    /\ UNCHANGED <<nodeVars, srvs, procs, thr, reqs, crashes, held, proxy, ens, moves,
                   reliable, reap, zip, reg, rd, pp>>

\* io.ReadAll and json.Unmarshal of goroutine k: Warning when either fails,
\* otherwise the four fields of the answer and Online.
PollRead(k) ==
    /\ poll.pc = "wait"
    /\ k \in 1..Len(poll.go)
    /\ poll.go[k] = "read"
    /\ LET a == poll.ans[k]
           u == Unmarshal(Body(a))
           im == poll.ims[k]
       IN poll' = [poll EXCEPT
                     !.go[k] = "done",
                     !.ch = Append(@,
                              IF a.kind = "unreadable" \/ u.err
                              THEN [im EXCEPT !.state = "Warning"]
                              ELSE [im EXCEPT !.cpu = u.sys.cpu, !.used = u.sys.used,
                                              !.total = u.sys.total,
                                              !.instances = u.sys.instances,
                                              !.state = "Online"])]
    /\ UNCHANGED <<nodeVars, srvs, procs, thr, reqs, crashes, held, proxy, ens, moves,
                   reliable, reap, zip, reg, rd, pp>>

\* wg.Wait(), close(ch) and the range over ch.
PollCollect ==
    /\ poll.pc = "wait"
    /\ \A k \in 1..Len(poll.go) : poll.go[k] = "done"
    /\ poll' = [poll EXCEPT !.pc = "done", !.result = poll.ch]
    /\ UNCHANGED <<nodeVars, srvs, procs, thr, reqs, crashes, held, proxy, ens, moves,
                   reliable, reap, zip, reg, rd, pp>>

\* ------------------------------------------------- createIM / deleteIM / saveConfig
\* The {domain, name} pairs a request may carry.
Pairs == {[domain |-> Domain(n), name |-> n] : n \in Nodes}

\* An element of instanceManagers as createIM and loadConfig build it.
NewIM(c) == [domain |-> c.domain, name |-> c.name, state |-> ""]

\* A variant of ConfigOf that writes the first entry only.
ConfigOfFirst(ims) ==
    [k \in 1..(IF Len(ims) > 0 THEN 1 ELSE 0) |-> [domain |-> ims[k].domain, name |-> ims[k].name]]

\* saveConfig's loop: one ConfigIM per element, in order.
ConfigOf(ims) == [k \in 1..Len(ims) |-> [domain |-> ims[k].domain, name |-> ims[k].name]]

\* json.MarshalIndent(cfg): a nil slice is written as null.
MarshalConfig(cfg) ==
    IF Len(cfg) = 0 THEN [text |-> "null", list |-> << >>]
    ELSE [text |-> "array", list |-> cfg]

\* What loadConfig reads back from a file: nothing when the file is missing
\* or holds null.
LoadConfig(file) == IF file.text = "array" THEN file.list ELSE << >>

\* deleteIM's search: the first index whose Domain and Name equal the
\* request's, 0 for Go's -1.
IndexOfIM(ims, c) ==
    LET hit == {i \in 1..Len(ims) : ims[i].domain = c.domain /\ ims[i].name = c.name}
    IN IF hit = {} THEN 0 ELSE CHOOSE i \in hit : \A j \in hit : i <= j

\* append(instanceManagers[:index], instanceManagers[index+1:]...)
RemoveAt(ims, i) == SubSeq(ims, 1, i - 1) \o SubSeq(ims, i + 1, Len(ims))

RegThreads == 1..MaxRegThreads
IdleRegThr == [pc |-> "idle", code |-> 0]
IdleReg ==
    [mem |-> << >>, file |-> [text |-> "missing", list |-> << >>],
     th |-> [t \in RegThreads |-> IdleRegThr], n |-> 0, lists |-> {}]

\* createIM up to mu.Unlock(): a body that does not decode is answered 400,
\* otherwise the pair is appended under mu.  `lists` keeps every value the
\* list had under mu, for the properties.
CreateIM(t, c, valid) ==
    /\ reg.th[t].pc = "idle"
    /\ reg.n < MaxRegReqs
    /\ Len(reg.mem) < MaxRegistry + 1
    /\ reg' = IF valid
              THEN [reg EXCEPT !.th[t] = [pc |-> "save", code |-> 201],
                               !.mem = Append(@, NewIM(c)),
                               !.lists = @ \cup {Append(reg.mem, NewIM(c))},
                               !.n = @ + 1]
              ELSE [reg EXCEPT !.th[t] = [pc |-> "idle", code |-> 400], !.n = @ + 1]
    /\ UNCHANGED <<nodeVars, srvs, procs, thr, reqs, crashes, held, proxy, ens, moves,
                   reliable, reap, zip, poll, rd, pp>>

\* deleteIM up to mu.Unlock(): 400 for a body that does not decode, 404 when
\* no element has the pair, otherwise the first such element is removed.
DeleteIM(t, c, valid) ==
    /\ reg.th[t].pc = "idle"
    /\ reg.n < MaxRegReqs
    /\ LET i == IndexOfIM(reg.mem, c) IN
       reg' = IF ~valid
              THEN [reg EXCEPT !.th[t] = [pc |-> "idle", code |-> 400], !.n = @ + 1]
              ELSE IF i = 0
              THEN [reg EXCEPT !.th[t] = [pc |-> "idle", code |-> 404], !.n = @ + 1]
              ELSE [reg EXCEPT !.th[t] = [pc |-> "save", code |-> 200],
                               !.mem = RemoveAt(@, i),
                               !.lists = @ \cup {RemoveAt(reg.mem, i)},
                               !.n = @ + 1]
    /\ UNCHANGED <<nodeVars, srvs, procs, thr, reqs, crashes, held, proxy, ens, moves,
                   reliable, reap, zip, poll, rd, pp>>

\* saveConfig, all of it under mu: the list is converted, marshalled and
\* written; a failed marshal or write is logged and the file stays.
SaveConfig(t) ==
    /\ reg.th[t].pc = "save"
    /\ \E ok \in BOOLEAN :
          /\ reliable => ok
          /\ reg' = [reg EXCEPT !.th[t].pc = "idle",
                                !.file = IF ok THEN MarshalConfig(ConfigOf(reg.mem)) ELSE @]
    /\ UNCHANGED <<nodeVars, srvs, procs, thr, reqs, crashes, held, proxy, ens, moves,
                   reliable, reap, zip, poll, rd, pp>>

\* ------------------------------------------- the readiness scanner goroutines
\* A line of the child's output, by what strings.Contains finds in it.
Lines == [done : BOOLEAN, help : BOOLEAN]

\* strings.Contains(line, "Done") && strings.Contains(line, "For help")
IsReadyLine(line) == line.done /\ line.help

\* A variant of OnceFires that runs the function on every call.
OnceFiresAlways(once) == TRUE

\* srv.cleanupOnce.Do(f): f runs on the first call only.
OnceFires(once) == ~once

Streams == UNION {[1..k -> Lines] : k \in 0..MaxLines}

\* The child's pending output, the pipe between child and scanner, the
\* scanner goroutine, and how often close(started) has run.  `hits` counts the
\* readiness lines read, for the properties.
IdleRd ==
    [path |-> "none", out |-> << >>, pipe |-> << >>, eof |-> FALSE,
     reader |-> "returned", once |-> FALSE, closes |-> 0, hits |-> 0]

\* The child writes its next line; it can only do so while the pipe has room.
ChildWrite ==
    /\ rd.path # "none"
    /\ rd.out # << >>
    /\ Len(rd.pipe) < PipeCap
    /\ rd' = [rd EXCEPT !.pipe = Append(@, Head(rd.out)), !.out = Tail(@)]
    /\ UNCHANGED <<nodeVars, srvs, procs, thr, reqs, crashes, held, proxy, ens, moves,
                   reliable, reap, zip, poll, reg, pp>>

\* The child has written everything and exits: its end of the pipe closes.
ChildClose ==
    /\ rd.path # "none"
    /\ rd.out = << >>
    /\ ~rd.eof
    /\ rd' = [rd EXCEPT !.eof = TRUE]
    /\ UNCHANGED <<nodeVars, srvs, procs, thr, reqs, crashes, held, proxy, ens, moves,
                   reliable, reap, zip, poll, reg, pp>>

\* One turn of `for scanner.Scan()`.  startServerHandler's goroutine closes
\* started and returns on the readiness line; startHeldServer's calls
\* safeCloseStarted and goes on scanning.
ScanLine ==
    /\ rd.reader = "scan"
    /\ rd.pipe # << >>
    /\ LET line == Head(rd.pipe)
           rest == [rd EXCEPT !.pipe = Tail(@),
                              !.hits = IF IsReadyLine(line) THEN @ + 1 ELSE @]
       IN rd' = IF ~IsReadyLine(line) THEN rest
                ELSE IF rd.path = "start"
                THEN [rest EXCEPT !.closes = @ + 1, !.reader = "returned"]
                ELSE [rest EXCEPT !.closes = IF OnceFires(rd.once) THEN @ + 1 ELSE @,
                                  !.once = TRUE]
    /\ UNCHANGED <<nodeVars, srvs, procs, thr, reqs, crashes, held, proxy, ens, moves,
                   reliable, reap, zip, poll, reg, pp>>

\* scanner.Scan() answers false at end-of-stream: the goroutine closes
\* started (through safeCloseStarted in startHeldServer) and ends.
ScanEnd ==
    /\ rd.reader = "scan"
    /\ rd.pipe = << >>
    /\ rd.eof
    /\ rd' = [rd EXCEPT
                !.reader = "returned",
                !.closes = IF rd.path = "start" \/ OnceFires(rd.once) THEN @ + 1 ELSE @,
                !.once = IF rd.path = "start" THEN @ ELSE TRUE]
    /\ UNCHANGED <<nodeVars, srvs, procs, thr, reqs, crashes, held, proxy, ens, moves,
                   reliable, reap, zip, poll, reg, pp>>

\* ------------------------------------------------ parsePortFromResponse
\* Names a /move request may ask for.
ParseNames == Names \cup {"arena-12", "pvp-7", "s1"}

\* A body that is the JSON object {"port": N}.
JsonBody(port) == [jsonPort |-> port, ints |-> <<port>>]

IdleParse == [pc |-> "idle", name |-> "", port |-> 0, body |-> JsonBody(0), parsed |-> 0]

\* port, parseErr := parsePortFromResponse(body3)
ParsePort ==
    /\ pp.pc = "call"
    /\ pp' = [pp EXCEPT !.pc = "done", !.parsed = ParsePortFromResponse(pp.body)]
    /\ UNCHANGED <<nodeVars, srvs, procs, thr, reqs, crashes, held, proxy, ens, moves,
                   reliable, reap, zip, poll, reg, rd>>

InitNode ==
    /\ nextPort = [n \in Nodes |-> BasePort]
    /\ available = [n \in Nodes |-> << >>]
    /\ servers = [n \in Nodes |-> EmptyMap]
    /\ serverMap = [n \in Nodes |-> EmptyMap]
    /\ muxDead = [n \in Nodes |-> FALSE]
    /\ muDead = [n \in Nodes |-> FALSE]
    /\ dirs = [n \in Nodes |-> {}]
    /\ srvs = << >>
    /\ procs = << >>
    /\ thr = [t \in Threads |-> IdleThr]
    /\ reqs = 0
    /\ crashes = 0
    /\ held = << >>
    /\ proxy = EmptyMap
    /\ ens = [e \in EnsIds |-> IdleEns]
    /\ moves = 0
    /\ reap = IdleReap
    /\ zip = IdleZip
    /\ poll = IdlePoll
    /\ reg = IdleReg
    /\ rd = IdleRd
    /\ pp = IdleParse

Init ==
    /\ InitNode
    /\ reliable = FALSE

\* One node under direct requests.
Next ==
    \/ \E t \in Threads, op \in {"start", "stop", "save", "restart"}, nm \in Names :
          NodeRequest(t, "n1", op, nm)
    \/ \E t \in Threads : HandlerStep(t)
    \/ \E p \in 1..Len(procs) : ChildReady(p) \/ ChildExit(p)

Spec == Init /\ [][Next]_vars

\* ------------------------------------- SpecOrch: the orchestrator and its peers
\* The lobby reconciler against a proxy and nodes known only by their answers.
NextOrch ==
    \/ LobbyTick
    \/ \E e \in EnsIds :
          \/ EnsCheck(e)
          \/ EnsPoll(e, AnySnapshots)
          \/ WaitPoll(e, AnySnapshots)
          \/ EnsStartRemote(e)
          \/ EnsRegister(e)

SpecOrch == Init /\ [][NextOrch]_vars

\* ------------------------------ SpecPlace: placement over every load reading
\* The lobby reconciler against nodes that host nothing yet: each is Offline,
\* Warning, or Online with any CPU and RAM reading, in any completion order.
PlaceViews(n) ==
    {OnlineIM(n, c, r, << >>) : c \in CpuVals, r \in RamVals}
      \cup {OfflineIM(n, "Offline"), OfflineIM(n, "Warning")}
PlaceSnapshots ==
    {[k \in 1..Len(o) |-> f[o[k]]] :
        o \in Orderings(Nodes),
        f \in {g \in [Nodes -> UNION {PlaceViews(n) : n \in Nodes}] :
                  \A n \in Nodes : g[n] \in PlaceViews(n)}}

NextPlace ==
    \/ LobbyTick
    \/ \E e \in EnsIds :
          \/ EnsCheck(e)
          \/ EnsPoll(e, PlaceSnapshots)
          \/ EnsStartRemote(e)
          \/ EnsRegister(e)

SpecPlace == Init /\ [][NextPlace]_vars

\* --------------------------------- SpecFleet: the orchestrator and both nodes
\* Both nodes stay Online with a CPU reading, every HTTP call is answered and
\* every launch succeeds; a child still chooses when it prints the readiness
\* line and when it exits.  No start fails, so no deferred release runs.
InitFleet ==
    /\ InitNode
    /\ reliable = TRUE

FleetStartStep(t) ==
    \/ StartCheck(t) \/ StartAlloc(t) \/ StartLaunch(t) \/ StartWait(t)
    \/ StartReg1(t) \/ StartReg2(t)

FleetEnsStep(e) ==
    \/ EnsCheck(e)
    \/ EnsPoll(e, LiveSnapshots)
    \/ \E t \in Threads : EnsStart(e, t)
    \/ EnsAwait(e)
    \/ EnsRegister(e)

NextFleet ==
    \/ LobbyTick
    \/ \E nm \in Names : MoveRequest(nm)
    \/ \E e \in EnsIds : FleetEnsStep(e)
    \/ \E t \in Threads : FleetStartStep(t)
    \/ \E p \in 1..Len(procs) : ChildReady(p) \/ ChildExit(p)

SpecFleet == InitFleet /\ [][NextFleet]_vars

\* The same fleet with the scheduling the runtime provides: the reconciler's
\* ticker keeps firing, and a goroutine that can take its next step takes it.
\* A launched child that stays alive prints its readiness line (a start call
\* that succeeds).  Nothing obliges a /move request to arrive or a child to exit.
FairFleet ==
    /\ WF_vars(LobbyTick)
    /\ \A e \in EnsIds : WF_vars(FleetEnsStep(e))
    /\ \A t \in Threads : WF_vars(FleetStartStep(t))
    /\ \A p \in 1..MaxStarts : WF_vars(ChildReady(p))

SpecFleetFair == InitFleet /\ [][NextFleet]_vars /\ FairFleet

\* ------------------------------ SpecCalm: one node when nothing around it fails
\* The node of Spec with the proxy and the content store answering, every
\* copy, pipe and launch succeeding and every child that stays alive printing
\* its readiness line in time.  No start fails, so no deferred release runs.
InitCalm ==
    /\ InitNode
    /\ reliable = TRUE

CalmStep(t) ==
    \/ StartCheck(t) \/ StartAlloc(t) \/ StartLaunch(t) \/ StartWait(t)
    \/ StartReg1(t) \/ StartReg2(t)
    \/ StopFind(t) \/ StopSignal(t) \/ StopRelease(t)
    \/ Evacuate(t) \/ Locate(t) \/ HoldSignal(t) \/ HoldWait(t) \/ HoldDelete(t)
    \/ HoldNil(t) \/ SaveZipUpload(t) \/ HeldSet(t) \/ HeldLaunch(t) \/ HeldWait(t)
    \/ ReturnPlayers(t)

NextCalm ==
    \/ \E t \in Threads, op \in {"start", "stop", "save", "restart"}, nm \in Names :
          NodeRequest(t, "n1", op, nm)
    \/ \E t \in Threads : CalmStep(t)
    \/ \E p \in 1..Len(procs) : ChildReady(p) \/ ChildExit(p)

SpecCalm == InitCalm /\ [][NextCalm]_vars

\* ------------------------------------------------------ SpecReap: the reaper
\* The reaper's sweeps against a proxy that routes any of the names and nodes
\* known only by their answers.
RouteTables ==
    {EmptyMap,
     MapPut(EmptyMap, "lobby", [host |-> "n1", port |-> BasePort]),
     MapPut(MapPut(EmptyMap, "lobby", [host |-> "n1", port |-> BasePort]),
            "alpha", [host |-> "n2", port |-> BasePort + 3])}

InitReap ==
    /\ nextPort = [n \in Nodes |-> BasePort]
    /\ available = [n \in Nodes |-> << >>]
    /\ servers = [n \in Nodes |-> EmptyMap]
    /\ serverMap = [n \in Nodes |-> EmptyMap]
    /\ muxDead = [n \in Nodes |-> FALSE]
    /\ muDead = [n \in Nodes |-> FALSE]
    /\ dirs = [n \in Nodes |-> {}]
    /\ srvs = << >>
    /\ procs = << >>
    /\ thr = [t \in Threads |-> IdleThr]
    /\ reqs = 0
    /\ crashes = 0
    /\ held = << >>
    /\ proxy \in RouteTables
    /\ ens = [e \in EnsIds |-> IdleEns]
    /\ moves = 0
    /\ reliable = FALSE
    /\ reap = IdleReap
    /\ zip = IdleZip
    /\ poll = IdlePoll
    /\ reg = IdleReg
    /\ rd = IdleRd
    /\ pp = IdleParse

NextReap ==
    \/ ReapPoll(ReapSnapshots)
    \/ ReapVisit
    \/ ReapRemove

SpecReap == InitReap /\ [][NextReap]_vars

\* ----------------------------------------------------- SpecPool: the pool alone
\* Callers of the pool on node n1: allocate, release a port they hold (once
\* per allocation), or call releasePort with a non-positive port.
\* --------------------------- SpecSweep: the reaper alone against a busy node
\* Node n1 runs the instances of `hosted`, each started by start-server on
\* the next port and ready; n2 hosts nothing.  The proxy routes any of them
\* and reports 0 or 2 players for each it routes.  Calls to the nodes either
\* may fail (reliable = FALSE) or are all answered.  Nothing but the reaper
\* sends requests.
Layouts == {<<"alpha">>, <<"lobby", "alpha">>}
Hosted(L) == {L[i] : i \in 1..Len(L)}
IndexIn(L, nm) == CHOOSE i \in 1..Len(L) : L[i] = nm
SweepRoutes(L) ==
    {[nm \in S |-> [host |-> "n1", port |-> BasePort + IndexIn(L, nm) - 1,
                    players |-> c[nm]]] :
        S \in SUBSET Hosted(L), c \in [Hosted(L) -> PlayerVals]}

InitSweep ==
    \E L \in Layouts :
        /\ nextPort = [n \in Nodes |-> IF n = "n1" THEN BasePort + Len(L) ELSE BasePort]
        /\ available = [n \in Nodes |-> << >>]
        /\ srvs = [i \in 1..Len(L) |-> NewServer(BasePort + i - 1, i, "running")]
        /\ procs = [i \in 1..Len(L) |->
                      [NewProc("n1", L[i], BasePort + i - 1, "start") EXCEPT !.token = TRUE]]
        /\ servers = [n \in Nodes |->
                        IF n = "n1" THEN [q \in {BasePort + i - 1 : i \in 1..Len(L)} |->
                                             q - BasePort + 1]
                        ELSE EmptyMap]
        /\ serverMap = [n \in Nodes |->
                          IF n = "n1" THEN [nm \in Hosted(L) |-> IndexIn(L, nm)]
                          ELSE EmptyMap]
        /\ muxDead = [n \in Nodes |-> FALSE]
        /\ muDead = [n \in Nodes |-> FALSE]
        /\ dirs = [n \in Nodes |->
                     IF n = "n1" THEN {BasePort + i - 1 : i \in 1..Len(L)} ELSE {}]
        /\ thr = [t \in Threads |-> IdleThr]
        /\ reqs = 0
        /\ crashes = 0
        /\ held = << >>
        /\ proxy \in SweepRoutes(L)
        /\ ens = [e \in EnsIds |-> IdleEns]
        /\ moves = 0
        /\ reliable \in BOOLEAN
        /\ reap = IdleReap
        /\ zip = IdleZip
        /\ poll = IdlePoll
        /\ reg = IdleReg
        /\ rd = IdleRd
        /\ pp = IdleParse

SweepStopStep(t) == StopFind(t) \/ StopSignal(t) \/ StopRelease(t)

NextSweep ==
    \/ ReapPollLive
    \/ \E t \in Threads : ReapVisitLive(t)
    \/ ReapAwait
    \/ ReapRemove
    \/ \E t \in Threads : SweepStopStep(t)
    \/ \E p \in 1..Len(procs) : ChildExit(p)

SpecSweep == InitSweep /\ [][NextSweep]_vars

\* The same with the scheduling the runtime provides: the reaper's ticker
\* keeps firing, a goroutine that can take its next step takes it, and a
\* proxy that is asked again and again to remove a server accepts in the end.
FairSweep ==
    /\ WF_vars(ReapPollLive)
    /\ WF_vars(\E t \in Threads : ReapVisitLive(t))
    /\ WF_vars(ReapAwait)
    /\ WF_vars(ReapRemove)
    /\ \A t \in Threads : WF_vars(SweepStopStep(t))
    /\ SF_vars(ReapRemove /\ proxy' # proxy)

SpecSweepFair == InitSweep /\ [][NextSweep]_vars /\ FairSweep

\* ------------------------------------------- SpecZip: zipDir over world trees
InitZip ==
    /\ nextPort = [n \in Nodes |-> BasePort]
    /\ available = [n \in Nodes |-> << >>]
    /\ servers = [n \in Nodes |-> EmptyMap]
    /\ serverMap = [n \in Nodes |-> EmptyMap]
    /\ muxDead = [n \in Nodes |-> FALSE]
    /\ muDead = [n \in Nodes |-> FALSE]
    /\ dirs = [n \in Nodes |-> {}]
    /\ srvs = << >>
    /\ procs = << >>
    /\ thr = [t \in Threads |-> IdleThr]
    /\ reqs = 0
    /\ crashes = 0
    /\ held = << >>
    /\ proxy = EmptyMap
    /\ ens = [e \in EnsIds |-> IdleEns]
    /\ moves = 0
    /\ reliable = FALSE
    /\ reap = IdleReap
    /\ zip \in {[IdleZip EXCEPT !.tree = t] : t \in Trees}
    /\ poll = IdlePoll
    /\ reg = IdleReg
    /\ rd = IdleRd
    /\ pp = IdleParse

NextZip == ZipDir

SpecZip == InitZip /\ [][NextZip]_vars

\* --------------------------- SpecPoll: one fleet poll over registry snapshots
InitPoll ==
    /\ nextPort = [n \in Nodes |-> BasePort]
    /\ available = [n \in Nodes |-> << >>]
    /\ servers = [n \in Nodes |-> EmptyMap]
    /\ serverMap = [n \in Nodes |-> EmptyMap]
    /\ muxDead = [n \in Nodes |-> FALSE]
    /\ muDead = [n \in Nodes |-> FALSE]
    /\ dirs = [n \in Nodes |-> {}]
    /\ srvs = << >>
    /\ procs = << >>
    /\ thr = [t \in Threads |-> IdleThr]
    /\ reqs = 0
    /\ crashes = 0
    /\ held = << >>
    /\ proxy = EmptyMap
    /\ ens = [e \in EnsIds |-> IdleEns]
    /\ moves = 0
    /\ reliable = FALSE
    /\ reap = IdleReap
    /\ zip = IdleZip
    /\ poll \in {[IdlePoll EXCEPT !.pc = "start", !.reg = r] : r \in Registries}
    /\ reg = IdleReg
    /\ rd = IdleRd
    /\ pp = IdleParse

NextPoll ==
    \/ PollStart
    \/ \E k \in 1..MaxRegistry : PollGet(k)
    \/ \E k \in 1..MaxRegistry : PollRead(k)
    \/ PollCollect

SpecPoll == InitPoll /\ [][NextPoll]_vars

\* Every goroutine runs, and the client's 2 s timeout ends each request and
\* each read of a body.
FairPoll ==
    /\ WF_vars(PollStart)
    /\ \A k \in 1..MaxRegistry : WF_vars(PollGet(k)) /\ WF_vars(PollRead(k))
    /\ WF_vars(PollCollect)

SpecPollFair == SpecPoll /\ FairPoll

\* ------------------------- SpecRegistry: create_im and delete_im requests
\* loadConfig has run: the file is missing and the list empty, or the list
\* is what the file holds.
InitRegistry ==
    /\ nextPort = [n \in Nodes |-> BasePort]
    /\ available = [n \in Nodes |-> << >>]
    /\ servers = [n \in Nodes |-> EmptyMap]
    /\ serverMap = [n \in Nodes |-> EmptyMap]
    /\ muxDead = [n \in Nodes |-> FALSE]
    /\ muDead = [n \in Nodes |-> FALSE]
    /\ dirs = [n \in Nodes |-> {}]
    /\ srvs = << >>
    /\ procs = << >>
    /\ thr = [t \in Threads |-> IdleThr]
    /\ reqs = 0
    /\ crashes = 0
    /\ held = << >>
    /\ proxy = EmptyMap
    /\ ens = [e \in EnsIds |-> IdleEns]
    /\ moves = 0
    /\ reliable \in BOOLEAN
    /\ reap = IdleReap
    /\ zip = IdleZip
    /\ poll = IdlePoll
    /\ \E cfg \in UNION {[1..k -> Pairs] : k \in 0..1}, there \in BOOLEAN :
          /\ there \/ Len(cfg) = 0
          /\ reg = [IdleReg EXCEPT
                      !.file = IF there THEN MarshalConfig(cfg) ELSE @,
                      !.mem = [k \in 1..Len(cfg) |-> NewIM(cfg[k])],
                      !.lists = {[k \in 1..Len(cfg) |-> NewIM(cfg[k])]}]
    /\ rd = IdleRd
    /\ pp = IdleParse

NextRegistry ==
    \/ \E t \in RegThreads, c \in Pairs, valid \in BOOLEAN : CreateIM(t, c, valid)
    \/ \E t \in RegThreads, c \in Pairs, valid \in BOOLEAN : DeleteIM(t, c, valid)
    \/ \E t \in RegThreads : SaveConfig(t)

SpecRegistry == InitRegistry /\ [][NextRegistry]_vars

\* ------------------- SpecReader: one start invocation's child and scanner
InitReader ==
    /\ nextPort = [n \in Nodes |-> BasePort]
    /\ available = [n \in Nodes |-> << >>]
    /\ servers = [n \in Nodes |-> EmptyMap]
    /\ serverMap = [n \in Nodes |-> EmptyMap]
    /\ muxDead = [n \in Nodes |-> FALSE]
    /\ muDead = [n \in Nodes |-> FALSE]
    /\ dirs = [n \in Nodes |-> {}]
    /\ srvs = << >>
    /\ procs = << >>
    /\ thr = [t \in Threads |-> IdleThr]
    /\ reqs = 0
    /\ crashes = 0
    /\ held = << >>
    /\ proxy = EmptyMap
    /\ ens = [e \in EnsIds |-> IdleEns]
    /\ moves = 0
    /\ reliable = FALSE
    /\ reap = IdleReap
    /\ zip = IdleZip
    /\ poll = IdlePoll
    /\ reg = IdleReg
    /\ rd \in {[IdleRd EXCEPT !.path = p, !.out = s, !.reader = "scan"] :
                 p \in {"start", "held"}, s \in Streams}
    /\ pp = IdleParse

NextReader == ChildWrite \/ ChildClose \/ ScanLine \/ ScanEnd

SpecReader == InitReader /\ [][NextReader]_vars

\* ------------- SpecParse: parsePortFromResponse on answers of start-server
\* The node answered 200 for the name with the port it allocated, as its text
\* or as JSON.
InitParse ==
    /\ nextPort = [n \in Nodes |-> BasePort]
    /\ available = [n \in Nodes |-> << >>]
    /\ servers = [n \in Nodes |-> EmptyMap]
    /\ serverMap = [n \in Nodes |-> EmptyMap]
    /\ muxDead = [n \in Nodes |-> FALSE]
    /\ muDead = [n \in Nodes |-> FALSE]
    /\ dirs = [n \in Nodes |-> {}]
    /\ srvs = << >>
    /\ procs = << >>
    /\ thr = [t \in Threads |-> IdleThr]
    /\ reqs = 0
    /\ crashes = 0
    /\ held = << >>
    /\ proxy = EmptyMap
    /\ ens = [e \in EnsIds |-> IdleEns]
    /\ moves = 0
    /\ reliable = FALSE
    /\ reap = IdleReap
    /\ zip = IdleZip
    /\ poll = IdlePoll
    /\ reg = IdleReg
    /\ rd = IdleRd
    /\ \E nm \in ParseNames, p \in BasePort..(BasePort + MaxPorts), json \in BOOLEAN :
          pp = [pc |-> "call", name |-> nm, port |-> p,
                body |-> IF json THEN JsonBody(p) ELSE StartBody(nm, p), parsed |-> 0]

NextParse == ParsePort

SpecParse == InitParse /\ [][NextParse]_vars

PoolNode == "n1"

PoolAllocate ==
    LET a == AllocPort(nextPort[PoolNode], available[PoolNode]) IN
    /\ Len(available[PoolNode]) > 0 \/ nextPort[PoolNode] < BasePort + MaxPorts
    /\ nextPort' = [nextPort EXCEPT ![PoolNode] = a.np]
    /\ available' = [available EXCEPT ![PoolNode] = a.av]
    /\ held' = Append(held, a.port)
    /\ UNCHANGED <<servers, serverMap, muxDead, muDead, dirs, srvs, procs, thr,
                   reqs, crashes, orchVars>>

PoolRelease(i) ==
    /\ i \in 1..Len(held)
    /\ available' = [available EXCEPT ![PoolNode] = RelPort(@, held[i])]
    /\ held' = SubSeq(held, 1, i - 1) \o SubSeq(held, i + 1, Len(held))
    /\ UNCHANGED <<nextPort, servers, serverMap, muxDead, muDead, dirs, srvs, procs,
                   thr, reqs, crashes, orchVars>>

PoolReleaseInvalid(p) ==
    /\ p <= 0
    /\ available' = [available EXCEPT ![PoolNode] = RelPort(@, p)]
    /\ UNCHANGED <<nextPort, servers, serverMap, muxDead, muDead, dirs, srvs, procs,
                   thr, reqs, crashes, held, orchVars>>

NextPool ==
    \/ PoolAllocate
    \/ \E i \in 1..Len(held) : PoolRelease(i)
    \/ \E p \in {-1, 0} : PoolReleaseInvalid(p)

SpecPool == Init /\ [][NextPool]_vars

\* ----------------------------------------------------------------- predicates
NoDup(q) == \A i, j \in 1..Len(q) : i # j => q[i] # q[j]
InHeap(q, x) == \E i \in 1..Len(q) : q[i] = x
LiveChildren(n, nm) ==
    {p \in 1..Len(procs) : procs[p].node = n /\ procs[p].name = nm /\ procs[p].alive}
LiveRecords(n) == {nm \in DOMAIN serverMap[n] : serverMap[n][nm] # NilSrv}
LiveAnywhere(nm) == {p \in 1..Len(procs) : procs[p].name = nm /\ procs[p].alive}
\* The proxy routes nm to the host of a node where a live child for nm runs.
RoutesLive(nm) ==
    /\ nm \in DOMAIN proxy
    /\ \E p \in LiveAnywhere(nm) : Host(Domain(procs[p].node)) = proxy[nm].host
\* ... and that child is ready and listens on the routed port.
RoutesRunning(nm) ==
    /\ nm \in DOMAIN proxy
    /\ \E p \in LiveAnywhere(nm) :
          /\ Host(Domain(procs[p].node)) = proxy[nm].host
          /\ procs[p].port = proxy[nm].port
          /\ procs[p].token
Success(r) == r.pc = "done" /\ r.out \in {"found", "registered"}

\* ------------------------------------------------------------------ properties

\* C1: however concurrent ensure-instance calls for one name interleave, the
\* name never has two live child processes in the fleet, on one node or on two.
C1_OneLiveChildInFleet ==
    \A nm \in Names : Cardinality(LiveAnywhere(nm)) <= 1

\* C2: concurrent start-server requests for one name launch at most one child:
\* at any instant a name has at most one live child process on a node.
C2_OneLiveChildPerName ==
    \A n \in Nodes, nm \in Names : Cardinality(LiveChildren(n, nm)) <= 1

\* C3: every instance /system reports as running has a live child process
\* that has emitted the readiness token.
C3_RunningIsLiveAndReady ==
    \A n \in Nodes : \A inst \in SystemInstances(n) :
        inst.status = "running" =>
            LET s == serverMap[n][inst.name] IN
            /\ s # NilSrv
            /\ srvs[s].Cmd # NilCmd
            /\ procs[srvs[s].Cmd].alive
            /\ procs[srvs[s].Cmd].token

\* C4: with every allocated port released at most once per allocation, no
\* port is handed out twice without a release of it in between: the ports
\* currently handed out are pairwise distinct.
C4_NoDoubleAllocation == NoDup(held)

\* C4 witness: a released port has been handed out again while a port
\* allocated after it is still held.
C4_Witness ==
    \E i, j \in 1..Len(held) : i < j /\ held[j] < held[i]

\* C5: the released heap never holds a duplicate, never holds a port bound to
\* a record of the live map, and two live records never share a port.
C5_ReleasedOncePerAllocation ==
    \A n \in Nodes :
        /\ NoDup(available[n])
        /\ \A nm \in LiveRecords(n) : ~InHeap(available[n], srvs[serverMap[n][nm]].Port)
        /\ \A a, b \in LiveRecords(n) :
               a # b => srvs[serverMap[n][a]].Port # srvs[serverMap[n][b]].Port

\* C6: whenever an ensure-instance call ends with success (the proxy reported
\* the name, or add_server was accepted), the proxy routes the name to a node
\* on which a live child process for it is running.
C6_SuccessRoutesToLiveNode ==
    [][\A e \in EnsIds :
          (~Success(ens[e]) /\ Success(ens'[e])) => RoutesLive(ens[e].name)']_vars

\* C7: an ensure-instance call made while the proxy already routes the name
\* issues no start-server and no add_server.
C7_RoutedCallPlacesNothing ==
    \A e \in EnsIds : ens[e].routed0 => (ens[e].nstart = 0 /\ ens[e].nadd = 0)

\* How a call went on after its scan of the snapshot.
Waited(r) == r.pc = "w_poll" \/ r.via = "wait" \/ r.out \in {"timeout", "lost"}
RegistersScanned(r, inst) ==
    /\ r.via = "scan"
    /\ r.dom = inst.domain /\ r.port = inst.port
    /\ r.call # << >> => r.call = <<Host(inst.domain), inst.port>>

\* C8: when the snapshot read by ensure-instance(n) shows an instance named n,
\* the call never issues start-server, and what it does follows the status of
\* an instance shown: running or started - it registers that node's host and
\* that instance's port; restarting - it waits; anything else - it aborts.
C8_FoundInstanceIsNeverPlaced ==
    \A e \in EnsIds :
        (ens[e].seen.read /\ ens[e].seen.insts # {}) =>
            /\ ens[e].nstart = 0
            /\ ens[e].pc # "e_start"
            /\ \E inst \in ens[e].seen.insts :
                  \/ inst.status \in {"running", "started"} /\ RegistersScanned(ens[e], inst)
                  \/ inst.status = "restarting" /\ Waited(ens[e])
                  \/ /\ inst.status \notin {"running", "started", "restarting"}
                     /\ ens[e].out = "unexpected" /\ ens[e].nadd = 0

\* C8 witness: a call whose snapshot showed the instance as started has
\* registered that node's host and that instance's port with the proxy.
C8_Witness ==
    \E e \in EnsIds :
        /\ ens[e].via = "scan" /\ ens[e].out = "registered"
        /\ \E inst \in ens[e].seen.insts : inst.status = "started"
        /\ ens[e].name \in DOMAIN proxy
        /\ proxy[ens[e].name] = [host |-> ens[e].call[1], port |-> ens[e].call[2]]

\* C9: wait-for-ready polls at most 12 times and is over after the 12th; it
\* registers only what a poll showed as running, with that node's host and
\* that instance's port; it returns without registering when the name is
\* missing from a poll, shows a status other than running or restarting, or
\* the 12 polls are used up.
C9_WaitForReadyIsBounded ==
    \A e \in EnsIds :
        LET r == ens[e] IN
        /\ r.i <= 12
        /\ r.pc = "w_poll" => r.i < 12
        /\ r.via = "wait" =>
              /\ r.wseen.read
              /\ \E inst \in r.wseen.insts :
                    /\ inst.status = "running"
                    /\ r.dom = inst.domain /\ r.port = inst.port
                    /\ r.call # << >> => r.call = <<Host(inst.domain), inst.port>>
        /\ r.out = "timeout" => (r.i = 12 /\ r.nadd = 0)
        /\ r.out = "lost" =>
              /\ r.nadd = 0
              /\ r.wseen.read
              /\ \/ r.wseen.insts = {}
                 \/ \E inst \in r.wseen.insts : inst.status \notin {"running", "restarting"}
        /\ (r.i > 0 /\ r.wseen.read /\ r.wseen.insts = {}) => (r.out = "lost" /\ r.nadd = 0)

\* C9 witness: the wait ran out after its 12th poll, every poll having failed
\* or shown the instance still restarting.
C9_Witness ==
    \E e \in EnsIds : ens[e].out = "timeout" /\ ens[e].i = 12 /\ ens[e].wseen.read

\* C10: with both nodes Online, every call answered and the scheduling fair,
\* whenever the proxy does not route lobby to a live lobby child, the lobby
\* reconciler eventually has it routed to a running one.
C10_LobbyEventuallyRouted ==
    (~RoutesLive("lobby")) ~> RoutesRunning("lobby")

\* C11: in every sweep the reaper calls stop-server, and afterwards
\* remove_server, for an instance only if the snapshot the sweep read shows it
\* with a name other than lobby, player_count 0 and status running or started;
\* lobby is never stopped or unregistered.
C11_ReaperStopsOnlyEmptyNonLobby ==
    /\ \A c \in reap.stops :
          /\ c[2] # "lobby"
          /\ \E k \in 1..Len(reap.snap) : \E j \in 1..Len(reap.snap[k].instances) :
                LET inst == reap.snap[k].instances[j] IN
                /\ reap.snap[k].domain = c[1] /\ inst.name = c[2]
                /\ inst.players = 0 /\ inst.status \in {"running", "started"}
    /\ \A nm \in reap.removes : nm # "lobby" /\ \E c \in reap.stops : c[2] = nm
    /\ reap.pc = "remove" =>
          <<reap.snap[reap.k].domain, reap.snap[reap.k].instances[reap.j].name>> \in reap.stops

\* C11 witness: a sweep whose snapshot showed lobby and alpha both running
\* with no players has stopped and unregistered alpha, and lobby is still routed.
C11_Witness ==
    /\ reap.pc = "done"
    /\ reap.removes = {"alpha"}
    /\ "lobby" \in DOMAIN proxy /\ "alpha" \notin DOMAIN proxy
    /\ \E k \in 1..Len(reap.snap) : \E j \in 1..Len(reap.snap[k].instances) :
          LET inst == reap.snap[k].instances[j] IN
          inst.name = "lobby" /\ inst.players = 0 /\ inst.status = "running"

\* The record a handler's name is bound to on its node is marked restarting.
IsRestarting(n, nm) ==
    /\ nm \in DOMAIN serverMap[n]
    /\ serverMap[n][nm] # NilSrv
    /\ srvs[serverMap[n][nm]].Status = "restarting"

\* C12: a save-instance or restart-instance request that finds its instance
\* already restarting is rejected with 400 and changes nothing: it never goes
\* on to stop the instance a second time.
C12_RestartingIsRejected ==
    [][\A t \in Threads :
          (/\ thr[t].pc = "rs_locate" /\ thr'[t].pc # "rs_locate"
           /\ IsRestarting(thr[t].node, thr[t].name))
          => (/\ thr'[t].pc = "done" /\ thr'[t].resp = 400
              /\ UNCHANGED <<nodeVars, srvs, procs>>)]_vars

\* Handler t is inside a save/restart cycle: its instance is marked and the
\* cycle has neither failed nor answered yet.
InCycle(t) ==
    /\ thr[t].op \in {"save", "restart"}
    /\ thr[t].pc \in {"hold_sig", "hold_wait", "hold_del", "hold_nil", "sv_zip",
                      "held_set", "held_launch", "held_wait", "rs_back"}

\* C13: throughout a save or restart cycle the instance's port is not in the
\* released pool and is not allocated to a start-server request; when the
\* cycle has succeeded, the name's record is running on that same port and
\* its workdir is still the one provisioned for the port.
C13_PortHeldThroughCycle ==
    \A t \in Threads :
        InCycle(t) =>
            LET n == thr[t].node
                nm == thr[t].name
            IN
            /\ ~InHeap(available[n], thr[t].port)
            /\ \A u \in Threads \ {t} :
                  (thr[u].op = "start" /\ thr[u].node = n /\ thr[u].pc # "done")
                      => thr[u].port # thr[t].port
            /\ thr[t].pc = "rs_back" =>
                  /\ nm \in DOMAIN serverMap[n] /\ serverMap[n][nm] # NilSrv
                  /\ srvs[serverMap[n][nm]].Port = thr[t].port
                  /\ srvs[serverMap[n][nm]].Status = "running"
                  /\ thr[t].port \in dirs[n]

\* C14: when the start step of a save/restart cycle fails (plugin copy, pipe
\* or launch error, or no readiness within 60 s), the name's record is absent
\* from the live map, so /system does not list the name, and the cycle's port
\* is in the released pool.
C14_FailedRestartFreesNameAndPort ==
    [][\A t \in Threads :
          (/\ thr[t].pc \in {"held_launch", "held_wait"}
           /\ thr'[t].pc = "done" /\ thr'[t].resp = 500)
          => (/\ thr[t].name \notin DOMAIN serverMap'[thr[t].node]
              /\ \A inst \in SystemInstances(thr[t].node)' : inst.name # thr[t].name
              /\ InHeap(available'[thr[t].node], thr[t].port))]_vars

\* C15: with the proxy and the content store answering and every launch
\* succeeding, a save-instance request that has marked its instance ends only
\* with response 200, the name's record running on the port it had.
C15_SaveRunsToCompletion ==
    [][\A t \in Threads :
          (thr[t].op = "save" /\ InCycle(t) /\ thr'[t].pc = "done")
          => (/\ thr'[t].resp = 200
              /\ thr[t].name \in DOMAIN serverMap'[thr[t].node]
              /\ serverMap'[thr[t].node][thr[t].name] # NilSrv
              /\ srvs'[serverMap'[thr[t].node][thr[t].name]].Port = thr[t].port
              /\ srvs'[serverMap'[thr[t].node][thr[t].name]].Status = "running")]_vars

\* C16: a save or restart request leaves its /move_from_to call either with
\* an accepted answer (ok=true) and nothing else changed, or finished with
\* response 500 in that same step, before any signal, with the node's maps,
\* port pool, records and processes unchanged.
C16_EvacuationIsFailFast ==
    [][\A t \in Threads :
          (thr[t].pc = "rs_evac" /\ thr'[t].pc # "rs_evac")
          => /\ UNCHANGED <<nodeVars, srvs, procs>>
             /\ \/ thr'[t].pc = "rs_locate" /\ thr'[t].ans = "ok"
                \/ thr'[t].pc = "done" /\ thr'[t].resp = 500]_vars

\* Every handler slot last served a save or restart request answered 500, so
\* one of them arrived after the start request had returned, and the instance
\* is still running with its child alive, unsignalled and on its port.
C16_Witness ==
    \A t \in Threads : \E p \in 1..Len(procs) :
        /\ thr[t].op \in {"save", "restart"}
        /\ thr[t].pc = "done" /\ thr[t].resp = 500
        /\ thr[t].name \in DOMAIN serverMap[thr[t].node]
        /\ serverMap[thr[t].node][thr[t].name] # NilSrv
        /\ srvs[serverMap[thr[t].node][thr[t].name]].Status = "running"
        /\ srvs[serverMap[thr[t].node][thr[t].name]].Cmd = p
        /\ procs[p].alive /\ ~procs[p].sig
        /\ ~InHeap(available[thr[t].node], procs[p].port)

\* C17: when a save or restart request sends /move_list_to, the child it
\* launched has printed its readiness line, the call carries the players its
\* own /move_from_to returned and server = the instance's name, and the
\* request is answered 200.
C17_PlayersReturnAfterReady ==
    [][\A t \in Threads :
          (thr[t].pc = "rs_back" /\ thr'[t].pc = "done" /\ thr'[t].back.server # "")
          => /\ thr[t].cmd # NilCmd
             /\ procs[thr[t].cmd].token
             /\ thr'[t].back = [players |-> Join(thr[t].moved), server |-> thr[t].name]
             /\ thr'[t].resp = 200]_vars

\* C18: a start (in start-server or in startHeldServer) that leaves its wait
\* for readiness while its child has printed no readiness line leaves it by
\* the failure branch: the response is an error and the request goes on
\* neither to registering the instance nor to returning the players.
C18_EndOfStreamIsNotReady ==
    [][\A t \in Threads :
          (/\ thr[t].pc \in {"st_wait", "held_wait"}
           /\ thr'[t].pc # thr[t].pc
           /\ ~procs[thr[t].cmd].token)
          => /\ thr'[t].pc \in {"st_defer", "done"}
             /\ thr'[t].resp \in {500, 504}]_vars

\* How many times port p sits in the heap av.
CountIn(av, p) == Cardinality({i \in 1..Len(av) : av[i] = p})

\* C19: a start-server request that fails after allocatePort registers
\* nothing and gives its port back once: the step that detects the failure
\* changes neither map (and on the 504 timeout kills the child), the only
\* step after it is the deferred release, and that step pushes the port onto
\* the available heap exactly once, leaves both maps alone and disarms itself.
C19_FailedStartReturnsPortOnce ==
    [][\A t \in Threads :
          /\ (thr[t].pc \in {"st_launch", "st_wait"} /\ thr'[t].pc = "st_defer")
             => /\ UNCHANGED <<serverMap, servers, available>>
                /\ thr'[t].pend
                /\ thr'[t].resp \in {500, 504}
                /\ thr'[t].resp = 504 => ~procs'[thr[t].cmd].alive
          /\ (thr[t].pc = "st_defer" /\ thr'[t].pc # "st_defer")
             => /\ thr'[t].pc = "done"
                /\ thr'[t].resp = thr[t].resp
                /\ ~thr'[t].pend
                /\ UNCHANGED <<serverMap, servers, nextPort>>
                /\ CountIn(available'[thr[t].node], thr[t].port)
                     = CountIn(available[thr[t].node], thr[t].port) + 1
                /\ Len(available'[thr[t].node]) = Len(available[thr[t].node]) + 1]_vars

\* A start-server request was answered 504: its child is dead, its port is
\* back in the heap and its name has no record.
C19_Witness ==
    \E t \in Threads, p \in 1..Len(procs) :
        /\ thr[t].op = "start" /\ thr[t].pc = "done" /\ thr[t].resp = 504
        /\ procs[p].port = thr[t].port /\ procs[p].node = thr[t].node
        /\ procs[p].name = thr[t].name /\ ~procs[p].alive
        /\ CountIn(available[thr[t].node], thr[t].port) = 1
        /\ thr[t].name \notin DOMAIN serverMap[thr[t].node]
        /\ thr[t].port \notin DOMAIN servers[thr[t].node]

\* C20: when stop-server puts a port back on the available heap, every child
\* process of that node that was launched on the port has exited.
C20_PortReleasedAfterExit ==
    [][\A t \in Threads :
          (/\ thr[t].op = "stop" /\ thr[t].pc = "sp_release"
           /\ InHeap(available'[thr[t].node], thr[t].port)
           /\ available'[thr[t].node] # available[thr[t].node])
          => \A p \in 1..Len(procs) :
                (procs[p].node = thr[t].node /\ procs[p].port = thr[t].port)
                => ~procs'[p].alive]_vars

\* C21: a stop-server request for a name whose record an earlier stop has
\* already removed (its child was signalled and the name is no longer a key of
\* serverMap) is answered 200 and changes neither the maps nor the port pool.
C21_StopIsIdempotent ==
    [][\A t \in Threads :
          (/\ thr[t].op = "stop" /\ thr[t].pc = "sp_find" /\ thr'[t].pc # "sp_find"
           /\ thr[t].name \notin DOMAIN serverMap[thr[t].node]
           /\ \E p \in 1..Len(procs) :
                 /\ procs[p].node = thr[t].node /\ procs[p].name = thr[t].name
                 /\ procs[p].sig)
          => /\ thr'[t].pc = "done" /\ thr'[t].resp = 200
             /\ UNCHANGED <<serverMap, servers, available, nextPort>>]_vars

\* Request t has read or changed its instance's record, child or port and has
\* not returned yet: it is past the name check of start-server, past the
\* lookup of stop-server, or past the marking of save/restart.
Engaged(t) ==
    thr[t].pc \in {"st_alloc", "st_launch", "st_wait", "st_reg1", "st_reg2", "st_defer",
                   "sp_stop", "sp_release",
                   "hold_sig", "hold_wait", "hold_del", "hold_nil", "sv_zip",
                   "held_set", "held_launch", "held_wait", "rs_back", "blocked"}

\* C22: on one node no two requests for the same instance name are engaged
\* at the same time.
C22_SameNameOperationsSerialized ==
    \A t, u \in Threads :
        (t # u /\ thr[t].node = thr[u].node /\ thr[t].name = thr[u].name)
        => ~(Engaged(t) /\ Engaged(u))

\* The managers a snapshot digest shows as eligible by the stated rule:
\* tagged Online, with a non-zero CPU reading.
EligibleIn(cand) == {m \in cand : m.state = "Online" /\ m.cpu # 0}

\* C23: an ensure-instance call about to send start-server sends it to a node
\* its snapshot tags Online with a non-zero CPU reading, and a call that ended
\* for lack of capacity saw no such node and sent neither start-server nor
\* add_server.
C23_StartOnlyOnOnlineNode ==
    \A e \in EnsIds :
        /\ ens[e].pc = "e_start"
             => \E m \in EligibleIn(ens[e].cand) : m.node = ens[e].sel
        /\ (ens[e].pc = "done" /\ ens[e].out = "nocapacity")
             => /\ EligibleIn(ens[e].cand) = {}
                /\ ens[e].nstart = 0
                /\ ens[e].nadd = 0

\* ensure-instance is about to send start-server while the snapshot also
\* shows a manager tagged Offline or Warning.
C23_Witness ==
    \E e \in EnsIds :
        /\ ens[e].pc = "e_start"
        /\ \E m \in ens[e].cand : m.state \in {"Offline", "Warning"} /\ m.node # ens[e].sel

\* C24: the node ensure-instance selects has the least CPU reading among the
\* nodes tagged Online with a non-zero CPU reading, and no such node with that
\* same CPU reading has more free RAM.
C24_LeastCpuThenMostFreeRam ==
    \A e \in EnsIds :
        ens[e].pc = "e_start"
        => \E pick \in EligibleIn(ens[e].cand) :
              /\ pick.node = ens[e].sel
              /\ \A m \in EligibleIn(ens[e].cand) :
                    /\ pick.cpu <= m.cpu
                    /\ m.cpu = pick.cpu => pick.free >= m.free

\* n1 with cpu 20 and 8000 MB free, n2 with cpu 20 and 12000 MB free: n2 is
\* selected.
C24_Witness ==
    \E e \in EnsIds :
        /\ ens[e].pc = "e_start"
        /\ ens[e].cand = {[node |-> "n1", state |-> "Online", cpu |-> 20, free |-> 8000],
                          [node |-> "n2", state |-> "Online", cpu |-> 20, free |-> 12000]}
        /\ ens[e].sel = "n2"

\* The instance the reaper's loops are at.
ReapAt == <<reap.snap[reap.k].domain, reap.snap[reap.k].instances[reap.j].name>>

\* C25: within a sweep the reaper sends remove_server for an instance only
\* when stop-server for that instance on its node has answered 200; when
\* stop-server fails the sweep sends no remove_server for it and goes on to
\* the next instance of the snapshot.
C25_RemoveOnlyAfterStopSucceeded ==
    [][/\ reap.pc = "remove" => ReapAt \in reap.oks
       /\ reap'.removes \ reap.removes # {}
            => /\ reap.pc = "remove" /\ ReapAt \in reap.oks
               /\ reap'.removes = reap.removes \cup {ReapAt[2]}
       /\ (reap.pc = "visit" /\ reap'.stops # reap.stops /\ ReapAt \notin reap'.oks)
            => /\ reap'.pc \in {"visit", "done"}
               /\ reap'.removes = reap.removes
               /\ proxy' = proxy
               /\ <<reap'.k, reap'.j>> = <<ReapSkip(reap.snap, reap.k, reap.j + 1).k,
                                           ReapSkip(reap.snap, reap.k, reap.j + 1).j>>]_vars

\* A sweep is over in which stop-server failed for the empty instance of one
\* node and nothing was unregistered, although the proxy routes that name.
C25_Witness ==
    /\ reap.pc = "done"
    /\ \E c \in reap.stops : c \notin reap.oks /\ c[2] \in DOMAIN proxy
    /\ reap.removes = {}

\* With every call to the nodes answered, a sweep has ended in which the
\* reaper stopped instance nm and the proxy still routes nm.
Dangling(nm) ==
    /\ reliable
    /\ reap.pc = "done"
    /\ \E c \in reap.oks : c[2] = nm
    /\ nm \in DOMAIN proxy

\* C26: a proxy entry left behind by a failed remove_server, after the reaper
\* stopped its instance, is eventually removed: a later sweep calls
\* remove_server for the name again and the proxy, asked often enough, accepts.
C26_DanglingEntryIsRetried ==
    \A nm \in Names : Dangling(nm) ~> (nm \notin DOMAIN proxy)

HasBannedSegment(q) ==
    \E i \in 1..Len(q) : q[i] \in {"advancements", "playerdata", "stats"}

\* C28: for every world directory tree, the archive zipDir writes has no entry
\* with a path segment equal to advancements, playerdata or stats, and it has
\* every regular file none of whose segments is one of those names, under the
\* file's path relative to the world directory.
C28_ArchiveOmitsBlacklistKeepsRest ==
    zip.pc = "done" =>
        /\ \A e \in zip.entries : ~HasBannedSegment(e.name)
        /\ \A f \in zip.tree :
              (~f.dir /\ ~HasBannedSegment(SubSeq(f.path, Len(WorldDir) + 1, Len(f.path))))
                  => [name |-> SubSeq(f.path, Len(WorldDir) + 1, Len(f.path)),
                      dir |-> FALSE] \in zip.entries

\* An archive was written for a tree that has a file in a blacklisted
\* directory below an ordinary one, and an ordinary file beside it.
C28_Witness ==
    /\ zip.pc = "done"
    /\ [path |-> WorldDir \o <<"region", "stats">>, dir |-> TRUE] \in zip.tree
    /\ [path |-> WorldDir \o <<"region", "region">>, dir |-> FALSE] \in zip.tree
    /\ [name |-> <<"region", "region">>, dir |-> FALSE] \in zip.entries


\* ------------------------------------------------------------------- C29
FreePorts(n) == {available[n][i] : i \in 1..Len(available[n])}
Smallest(S) == CHOOSE x \in S : \A y \in S : x <= y

\* C29: allocatePort answers the smallest port of the released heap and takes
\* it out when the heap is not empty, and otherwise answers the watermark and
\* raises it by one; releasePort puts the port into the heap, so a released
\* port that is the smallest free one is the next one allocated.
C29_AllocateSmallestFreeElseWatermark ==
    [][/\ Len(held') = Len(held) + 1 =>
            LET p == held'[Len(held')] IN
            IF Len(available[PoolNode]) > 0
            THEN /\ p = Smallest(FreePorts(PoolNode))
                 /\ nextPort'[PoolNode] = nextPort[PoolNode]
                 /\ Len(available'[PoolNode]) = Len(available[PoolNode]) - 1
                 /\ \A q \in FreePorts(PoolNode) :
                        CountIn(available'[PoolNode], q)
                            = CountIn(available[PoolNode], q) - (IF q = p THEN 1 ELSE 0)
            ELSE /\ p = nextPort[PoolNode]
                 /\ nextPort'[PoolNode] = nextPort[PoolNode] + 1
                 /\ available'[PoolNode] = available[PoolNode]
       /\ Len(held') = Len(held) - 1 =>
            \E i \in 1..Len(held) :
                /\ held' = SubSeq(held, 1, i - 1) \o SubSeq(held, i + 1, Len(held))
                /\ CountIn(available'[PoolNode], held[i])
                       = CountIn(available[PoolNode], held[i]) + 1
                /\ nextPort'[PoolNode] = nextPort[PoolNode]
      ]_vars

\* C29 witness: 3000, 3001 and 3002 were allocated, 3001 was released, and the
\* next allocation got 3001 while the watermark stayed at 3003.
C29_Witness ==
    /\ held = <<BasePort, BasePort + 2, BasePort + 1>>
    /\ nextPort[PoolNode] = BasePort + 3
    /\ available[PoolNode] = << >>


\* ------------------------------------------------------------------- C30
\* The observation the claim prescribes for registry entry im whose status
\* request met answer a.
Observation(im, a) ==
    IF a.kind = "error" THEN [im EXCEPT !.state = "Offline"]
    ELSE IF a.kind \in {"unreadable", "garbage", "badtype"} THEN [im EXCEPT !.state = "Warning"]
    ELSE [domain |-> im.domain, state |-> "Online", cpu |-> a.sys.cpu, used |-> a.sys.used,
          total |-> a.sys.total, instances |-> a.sys.instances]

Bijections(n) == {f \in [1..n -> 1..n] : \A i, j \in 1..n : f[i] = f[j] => i = j}

PollCorrect ==
    /\ Len(poll.result) = Len(poll.reg)
    /\ \E f \in Bijections(Len(poll.reg)) :
          \A k \in 1..Len(poll.reg) :
              poll.result[f[k]] = Observation(poll.reg[k], poll.ans[k])

\* C30: for every registry snapshot one fleet poll terminates, and what it
\* returns has exactly one observation per registered entry: Offline when the
\* status request failed in transport, Warning when the body could not be read
\* or parsed, and otherwise Online with the CPU, RAM and instance list the
\* node reported.
C30_PollTerminatesOneObservationPerNode ==
    /\ [](poll.pc = "done" => PollCorrect)
    /\ <>(poll.pc = "done")

\* C30 witness: a poll of two entries returned; the entry registered first
\* answered last, one node reported load and an instance, the other's body
\* was no JSON.
C30_Witness ==
    /\ poll.pc = "done"
    /\ Len(poll.reg) = 2
    /\ poll.reg[1].domain # poll.reg[2].domain
    /\ poll.result[2].domain = poll.reg[1].domain
    /\ poll.result[2].state = "Online"
    /\ poll.result[2].cpu > 0 /\ poll.result[2].instances # << >>
    /\ poll.ans[2].kind = "garbage"
    /\ poll.result[1].state = "Warning"


\* ------------------------------------------------------------------- C31
RegQuiet == \A t \in RegThreads : reg.th[t].pc = "idle"

AllocatedTo(n, nm, p) ==
    /\ serverMap[n][nm] # NilSrv
    /\ srvs[serverMap[n][nm]].Port = p
    /\ ~InHeap(available[n], p)

\* C32: every instance a node's /system lists, and every add_server call the
\* orchestrator sends, carries a port greater than 0 that is the port
\* allocated to that instance on its node.
C32_ListedPortIsAllocatedPort ==
    /\ \A n \in Nodes : \A nm \in DOMAIN serverMap[n] :
          /\ SystemInstance(n, nm).port > 0
          /\ AllocatedTo(n, nm, SystemInstance(n, nm).port)
    /\ \A e \in EnsIds :
          ens[e].call # << >> => ens[e].call[2] > 0


\* ------------------------------------------------------------------- C33
Quiescent == \A t \in Threads : thr[t].pc \in {"idle", "done"}
BoundTo(n, p) ==
    {nm \in DOMAIN serverMap[n] : serverMap[n][nm] # NilSrv /\ srvs[serverMap[n][nm]].Port = p}

\* C33: whenever no request is in flight on a node, every port from 3000 up
\* to the watermark is bound to exactly one record of the live map or is in
\* the released heap.
C33_NoPortLeaks ==
    Quiescent =>
        \A n \in Nodes : \A p \in BasePort..(nextPort[n] - 1) :
            Cardinality(BoundTo(n, p)) = 1 \/ InHeap(available[n], p)


\* ------------------------------------------------------------------- C34
\* The record stored under the child's name on its node holds that child.
Referenced(p) ==
    LET n == procs[p].node
        nm == procs[p].name
    IN /\ nm \in DOMAIN serverMap[n]
       /\ serverMap[n][nm] # NilSrv
       /\ srvs[serverMap[n][nm]].Cmd = p
\* A request for the child's name is still being served on its node.
InProgress(p) ==
    \E t \in Threads :
        /\ thr[t].pc \notin {"idle", "done"}
        /\ thr[t].node = procs[p].node
        /\ thr[t].name = procs[p].name

\* C34: every live child process of a node is held by the record stored under
\* its name in the live map, or belongs to a request for that name that is
\* still in progress.  A child that has been sent its stop signal and has not
\* exited yet is counted as part of its stop.
C34_NoUnreachableChild ==
    \A p \in 1..Len(procs) :
        (procs[p].alive /\ ~procs[p].sig) => Referenced(p) \/ InProgress(p)


\* ------------------------------------------------------------------- C35
\* C35: no handler leaves the live-map mutex or the port-pool mutex locked
\* when it ends, so no request blocks forever on either: serversMux is never
\* left locked by a handler that has ended, and no handler waits for
\* serversMux while it holds mu.
C35_LocksAlwaysReleased ==
    \A n \in Nodes :
        /\ ~muxDead[n]
        /\ ~muDead[n]
        /\ \A t \in Threads : thr[t].node = n => thr[t].pc # "blocked"


\* ------------------------------------------------------------------- C36
\* C36: in the start-server path and in the restart path the stdout reader,
\* once the readiness latch has fired, goes on consuming until end-of-stream:
\* it does not return while the child has output still to write or output
\* sits in the pipe, so the child is never left with a pipe nobody reads.
C36_ReaderDrainsUntilEndOfStream ==
    (rd.path # "none" /\ rd.reader = "returned") =>
        (rd.pipe = << >> /\ rd.out = << >>)

\* ------------------------------------------------------------------- C40
\* C40: in both paths close(started) runs at most once per start invocation,
\* whatever the child writes: several readiness lines, or a readiness line
\* and then end-of-stream.
C40_StartedClosedAtMostOnce == rd.closes <= 1

\* C40 witness: two readiness lines were read in the restart path, the stream
\* has ended, and the scanner has returned.
C40_Witness ==
    /\ rd.path = "held"
    /\ rd.reader = "returned"
    /\ rd.hits = 2
    /\ rd.closes = 1
    /\ rd.eof /\ rd.out = << >> /\ rd.pipe = << >>


\* ------------------------------------------------------------------- C37
\* C37: for every instance name, the port parsed from a successful
\* start-server answer, JSON {"port": N} or the node's text "Server '<name>'
\* started on port N", is the port N the node allocated.
C37_ParsedPortIsAllocatedPort ==
    pp.pc = "done" => pp.parsed = pp.port


\* ------------------------------------------------------------------- C38
\* C38: a save-instance or restart-instance request that ends with not-found
\* or bad-request because the name has no record in the live map, or only a
\* nil one, has had no effect: it has not had the proxy move players away
\* (no accepted /move_from_to call), and the node's state is as it was.
C38_RejectedCycleMovesNoPlayers ==
    [][\A t \in Threads :
          (/\ thr[t].op \in {"save", "restart"}
           /\ thr[t].pc = "rs_locate"
           /\ thr'[t].pc = "done"
           /\ thr'[t].resp \in {404, 400}
           /\ \/ thr[t].name \notin DOMAIN serverMap[thr[t].node]
              \/ serverMap[thr[t].node][thr[t].name] = NilSrv)
          => (/\ thr[t].ans # "ok"
              /\ UNCHANGED <<nodeVars, srvs, procs>>)]_vars


\* ------------------------------------------------------------------- C39
\* C39: while a save cycle writes its archive (between the end of
\* stopServerHold and the upload), no child process of that instance is alive
\* in the directory being archived: the old child has exited and none is
\* relaunched before archiving and publishing are over.
C39_NoLiveChildWhileArchiving ==
    \A t \in Threads :
        (thr[t].op = "save" /\ thr[t].pc = "sv_zip") =>
            \A p \in 1..Len(procs) :
                ~(/\ procs[p].alive
                  /\ procs[p].node = thr[t].node
                  /\ procs[p].name = thr[t].name
                  /\ procs[p].port = thr[t].port)

====
